---- MODULE Spec2Model ----
(***************************************************************************)
(* A model of the ChatGoogleGenAI translation layer: the two encoders      *)
(* (canonical messages -> standard contents / interactions turns), the two *)
(* full-response decoders, the stream-chunk converter with its fold, and   *)
(* the routing of calls on one model instance.                             *)
(*                                                                         *)
(* JavaScript strings are TLA+ strings (\o is +).  An optional value       *)
(* (a field that may be undefined) is the empty tuple or a 1-tuple.        *)
(* A URL is a tuple of string tokens, so that startsWith and the           *)
(* data-URL regular expression are computed and not looked up.             *)
(***************************************************************************)
EXTENDS Integers, Sequences, FiniteSets, TLC

VARIABLES
    pc,         \* position of the scenario that is being run
    messages,   \* BaseMessage[] handed to an encoder
    payload,    \* what the encoder returned (or the error it threw)
    response,   \* wire response handed to a decoder / split into a stream
    pending,    \* parts of the response the server stream has not delivered
    finalChunk, \* _generate's running accumulator of the stream chunks
    generation, \* what the decoder returned (or the error it threw)
    uuids,      \* number of uuidv4() identifiers generated so far
    instance,   \* the ChatGoogleGenAI instance (its routing fields)
    history,    \* the caller's conversation history across calls; for the
                \* encoders on the heap, what each call returned
    request,    \* the last request the instance built (for the tool formatters:
                \* the call options and the tools put into the request)
    asked,      \* number of times the caller asked the chunk generator for a chunk
    yielded,    \* the chunks _streamResponseChunks yielded, each with its delta
    callbacks,  \* the handleLLMNewToken calls made so far
    constructedWith, \* the constructor argument and environment of the instance
    calledWith, \* the method and call options of the last call on the instance
    heap        \* the objects an encoder can write to, by address

vars == <<pc, messages, payload, response, pending, finalChunk, generation,
          uuids, instance, history, request, asked, yielded, callbacks,
          constructedWith, calledWith, heap>>

-----------------------------------------------------------------------------
(* Optional values and small sequence helpers.                             *)

None == <<>>
Some(v) == <<v>>
IsSome(o) == o # <<>>
Get(o) == o[1]

\* JavaScript truthiness of an optional string: defined and not ''.
Truthy(o) == IsSome(o) /\ Get(o) # ""

RECURSIVE Flatten(_)
Flatten(ss) == IF ss = <<>> THEN <<>> ELSE Head(ss) \o Flatten(Tail(ss))

RECURSIVE Join(_, _)
Join(ss, sep) ==
    IF ss = <<>> THEN ""
    ELSE IF Len(ss) = 1 THEN ss[1]
    ELSE ss[1] \o sep \o Join(Tail(ss), sep)

Map(s, F(_)) == [i \in 1..Len(s) |-> F(s[i])]

\* The first i for which r[i] failed, or 0.
FirstFailure(r) ==
    IF \E i \in 1..Len(r) : ~r[i].ok
    THEN CHOOSE i \in 1..Len(r) : ~r[i].ok /\ \A j \in 1..(i - 1) : r[j].ok
    ELSE 0

-----------------------------------------------------------------------------
(* Canonical messages (BaseMessage and its subclasses).                    *)

StringContent(s) == [kind |-> "string", text |-> s, blocks |-> <<>>]
ArrayContent(bs) == [kind |-> "array", text |-> "", blocks |-> bs]

NoBlock == [type |-> "", text |-> None, reasoning |-> None, image_url |-> None,
            index |-> None]
TextBlock(t) == [NoBlock EXCEPT !.type = "text", !.text = Some(t)]
ReasoningBlock(t) == [NoBlock EXCEPT !.type = "reasoning", !.reasoning = Some(t)]
ImageBlock(url) == [NoBlock EXCEPT !.type = "image_url", !.image_url = Some(url)]
OtherBlock(type) == [NoBlock EXCEPT !.type = type]

ToolCall(name, args, id) == [name |-> name, args |-> args, id |-> id]

NoMetadata == [thoughtSignature |-> None, thought_signature |-> None]

BaseMessage(type, content) ==
    [type |-> type, role |-> "", content |-> content, tool_calls |-> <<>>,
     response_metadata |-> NoMetadata, name |-> None, tool_call_id |-> "",
     status |-> "success"]

HumanMessage(content) == BaseMessage("human", content)
SystemMessage(content) == BaseMessage("system", content)
AIMessage(content, tool_calls, metadata) ==
    [BaseMessage("ai", content) EXCEPT !.tool_calls = tool_calls,
                                       !.response_metadata = metadata]
ToolMessage(content, name, tool_call_id) ==
    [BaseMessage("tool", content) EXCEPT !.name = name,
                                         !.tool_call_id = tool_call_id]
ChatMessage(role, content) == [BaseMessage("generic", content) EXCEPT !.role = role]

IsSystem(m) == m.type = "system"
IsAI(m) == m.type = "ai"
IsHuman(m) == m.type = "human"
IsTool(m) == m.type = "tool"
IsChat(m) == m.type = "generic"
NotSystem(m) == ~IsSystem(m)

-----------------------------------------------------------------------------
(* URLs of image blocks, as token tuples.                                  *)

DataUrl == <<"data:", "image/png", ";base64,", "QUJD">>
MalformedDataUrl == <<"data:", "nope">>
HttpsUrl == <<"https://", "x/y.png">>
GsUrl == <<"gs://", "bucket/o.png">>
OtherUrl == <<"ftp://", "z.png">>

startsWith(url, prefix) == Len(url) > 0 /\ url[1] = prefix

UrlString(url) == Join(url, "")

\* dataUrl.match(/^data:(.+);base64,(.+)$/): the greedy first group takes the
\* last ";base64," that leaves both groups non-empty.
Base64Cuts(url) == {i \in 3..(Len(url) - 1) : url[i] = ";base64,"}

\* The two groups taken in the other order.
SwappedGroups(url, i) ==
    [ok |-> TRUE,
     mimeType |-> Join(SubSeq(url, i + 1, Len(url)), ""),
     data |-> Join(SubSeq(url, 2, i - 1), "")]

\* The two groups of the match that cuts the URL at token i.
DataUrlGroups(url, i) ==
    [ok |-> TRUE,
     mimeType |-> Join(SubSeq(url, 2, i - 1), ""),
     data |-> Join(SubSeq(url, i + 1, Len(url)), "")]

\* A match that accepts every URL.
LenientDataUrlMatch(url) == [ok |-> TRUE, mimeType |-> "", data |-> ""]

DataUrlMatch(url) ==
    IF startsWith(url, "data:") /\ Base64Cuts(url) # {}
    THEN DataUrlGroups(url, CHOOSE c \in Base64Cuts(url) :
                                \A d \in Base64Cuts(url) : d <= c)
    ELSE [ok |-> FALSE, mimeType |-> "", data |-> ""]

-----------------------------------------------------------------------------
(* Standard protocol: wire parts and the encoder.                          *)

EmptyPart == [text |-> None, thought |-> FALSE, inlineData |-> None,
              fileData |-> None, functionCall |-> None,
              functionResponse |-> None, thoughtSignature |-> None]

Thrown(msg) == [ok |-> FALSE, error |-> msg]

\* if (!matches || matches.length !== 3) throw; else the two groups.
MatchedData(matches) ==
    IF ~matches.ok THEN Thrown("Invalid base64 image data URL")
    ELSE [ok |-> TRUE, error |-> "", mimeType |-> matches.mimeType,
          data |-> matches.data]

parseBase64Data(dataUrl) == MatchedData(DataUrlMatch(dataUrl))

\* Handle Base64: the inlineData part of the parsed URL.
InlineDataPart(p) ==
    IF ~p.ok THEN [ok |-> FALSE, error |-> p.error, part |-> EmptyPart]
    ELSE [ok |-> TRUE, error |-> "",
          part |-> [EmptyPart EXCEPT !.inlineData =
                      Some([mimeType |-> p.mimeType, data |-> p.data])]]

\* A map callback that sends a reasoning block as an ordinary text part.
ConvertBlockToTextPart(b) ==
    IF b.type = "text" /\ IsSome(b.text)
    THEN [ok |-> TRUE, error |-> "", part |-> [EmptyPart EXCEPT !.text = b.text]]
    ELSE IF b.type = "reasoning" /\ IsSome(b.reasoning)
    THEN [ok |-> TRUE, error |-> "", part |-> [EmptyPart EXCEPT !.text = b.reasoning]]
    ELSE [ok |-> FALSE, error |-> "Unsupported content block type: " \o b.type,
          part |-> EmptyPart]

\* The body of the map callback of convertContentToParts: one block, one part.
ConvertBlockToPart(b) ==
    IF b.type = "text" /\ IsSome(b.text)
    THEN [ok |-> TRUE, error |-> "", part |-> [EmptyPart EXCEPT !.text = b.text]]
    ELSE IF b.type = "reasoning" /\ IsSome(b.reasoning)
    THEN [ok |-> TRUE, error |-> "",
          part |-> [EmptyPart EXCEPT !.text = b.reasoning, !.thought = TRUE]]
    ELSE IF b.type = "image_url" /\ IsSome(b.image_url)
            /\ startsWith(Get(b.image_url), "data:")
    THEN InlineDataPart(parseBase64Data(Get(b.image_url)))
    ELSE IF b.type = "image_url" /\ IsSome(b.image_url)
            /\ (startsWith(Get(b.image_url), "gs://")
                \/ startsWith(Get(b.image_url), "https://"))
    THEN [ok |-> TRUE, error |-> "",
          part |-> [EmptyPart EXCEPT !.fileData =
                      Some([mimeType |-> "image/jpeg",
                            fileUri |-> UrlString(Get(b.image_url))])]]
    ELSE [ok |-> FALSE, error |-> "Unsupported content block type: " \o b.type,
          part |-> EmptyPart]

\* content.map(...): the parts of all blocks, or the first error thrown.
MappedParts(r) ==
    IF FirstFailure(r) # 0
    THEN [ok |-> FALSE, error |-> r[FirstFailure(r)].error, parts |-> <<>>]
    ELSE [ok |-> TRUE, error |-> "", parts |-> [i \in 1..Len(r) |-> r[i].part]]

convertContentToParts(content) ==
    IF content.kind = "string"
    THEN [ok |-> TRUE, error |-> "",
          parts |-> IF content.text = "" THEN <<>>
                    ELSE <<[EmptyPart EXCEPT !.text = Some(content.text)]>>]
    ELSE MappedParts(Map(content.blocks, ConvertBlockToPart))

convertToolCallToPart(toolCall) ==
    [EmptyPart EXCEPT !.functionCall =
        Some([name |-> toolCall.name, args |-> toolCall.args, id |-> None])]

convertToolMessageToPart(message) ==
    [EmptyPart EXCEPT !.functionResponse =
        Some([name |-> IF Truthy(message.name) THEN Get(message.name) ELSE "",
              response |-> [name |-> message.name, content |-> message.content]])]

\* A role mapping that keeps only human messages under 'user'.
HumanOnlyUserRole(message) == IF IsHuman(message) THEN "user" ELSE "model"

\* const role = AIMessage.isInstance(message) ? 'model' : 'user'
StandardRole(message) == IF IsAI(message) THEN "model" ELSE "user"

\* The signature written onto the first part instead of the last.
ReinjectHeadSignature(parts, signature) ==
    IF Len(parts) > 0
    THEN [parts EXCEPT ![1].thoughtSignature = Some(signature)]
    ELSE <<[EmptyPart EXCEPT !.text = Some(""), !.thoughtSignature = Some(signature)]>>

\* Reinject Thought Signature: onto the last part, or onto a dummy text part.
ReinjectThoughtSignature(parts, signature) ==
    IF Len(parts) > 0
    THEN [parts EXCEPT ![Len(parts)].thoughtSignature = Some(signature)]
    ELSE <<[EmptyPart EXCEPT !.text = Some(""), !.thoughtSignature = Some(signature)]>>

\* Handle Tool Calls (AI Message).
ToolCallParts(message) ==
    IF IsAI(message) THEN Map(message.tool_calls, convertToolCallToPart) ELSE <<>>

\* Handle Tool Results (Tool Message).
ToolResultParts(message) ==
    IF IsTool(message) THEN <<convertToolMessageToPart(message)>> ELSE <<>>

\* if (AIMessage.isInstance(message)) ... typeof metadata.thoughtSignature
SignedParts(message, parts) ==
    IF IsAI(message) /\ IsSome(message.response_metadata.thoughtSignature)
    THEN ReinjectThoughtSignature(parts,
             Get(message.response_metadata.thoughtSignature))
    ELSE parts

\* The pass after parts.push(...convertContentToParts(message.content)),
\* which may have thrown.
PartsAfterContent(message, c) ==
    IF ~c.ok THEN [ok |-> FALSE, error |-> c.error, parts |-> <<>>]
    ELSE [ok |-> TRUE, error |-> "",
          parts |-> SignedParts(message,
                        c.parts \o ToolCallParts(message) \o ToolResultParts(message))]

\* The parts one pass of the loop of convertMessagesToGooglePayload builds for
\* `message`: content, tool calls (AI), tool result (tool), signature (AI).
MessageParts(message) ==
    PartsAfterContent(message, convertContentToParts(message.content))

\* Without the merge: every message opens an entry of its own.
PushContent(contents, role, parts) ==
    Append(contents, [role |-> role, parts |-> parts])

\* Merge logic: append to the last entry when it has the same role.
MergeContent(contents, role, parts) ==
    IF Len(contents) > 0 /\ contents[Len(contents)].role = role
    THEN [contents EXCEPT ![Len(contents)].parts = @ \o parts]
    ELSE Append(contents, [role |-> role, parts |-> parts])

RECURSIVE StandardLoop(_, _, _)

\* The end of one pass: the parts p of message i are merged or pushed.
StandardPass(chatMessages, i, contents, p) ==
    IF ~p.ok THEN [ok |-> FALSE, error |-> p.error, contents |-> <<>>]
    ELSE StandardLoop(chatMessages, i + 1,
             MergeContent(contents, StandardRole(chatMessages[i]), p.parts))

\* for (const message of chatMessages)
StandardLoop(chatMessages, i, contents) ==
    IF i > Len(chatMessages) THEN [ok |-> TRUE, error |-> "", contents |-> contents]
    ELSE StandardPass(chatMessages, i, contents, MessageParts(chatMessages[i]))

\* Extract System Messages: the parts of each one (or its error).
SystemParts(msgs) ==
    Map(SelectSeq(msgs, IsSystem), LAMBDA m : convertContentToParts(m.content))

SystemInstruction(systemParts) ==
    IF Len(systemParts) > 0
    THEN Some([role |-> "system", parts |-> systemParts])
    ELSE None

\* The payload returned after the system pass `sys` and the loop over the
\* chat messages, unless one of them threw.
GooglePayload(sys, loop) ==
    IF FirstFailure(sys) # 0
    THEN [ok |-> FALSE, error |-> sys[FirstFailure(sys)].error, contents |-> <<>>,
          systemInstruction |-> None]
    ELSE IF ~loop.ok
    THEN [ok |-> FALSE, error |-> loop.error, contents |-> <<>>,
          systemInstruction |-> None]
    ELSE [ok |-> TRUE, error |-> "", contents |-> loop.contents,
          systemInstruction |->
              SystemInstruction(Flatten([i \in 1..Len(sys) |-> sys[i].parts]))]

convertMessagesToGooglePayload(msgs) ==
    GooglePayload(SystemParts(msgs), StandardLoop(SelectSeq(msgs, NotSystem), 1, <<>>))

-----------------------------------------------------------------------------
(* Interactions protocol: turns, items and the encoder.                    *)

NoItem == [type |-> "", text |-> "", data |-> None, mime_type |-> None,
           uri |-> None, id |-> None, name |-> None, arguments |-> "",
           call_id |-> "", result |-> None, is_error |-> FALSE,
           signature |-> None, summary |-> <<>>]

\* A text item that does not carry the text.
BlankTextItem(t) == [NoItem EXCEPT !.type = "text"]

TextItem(t) == [NoItem EXCEPT !.type = "text", !.text = t]
ThoughtItem(signature) == [NoItem EXCEPT !.type = "thought", !.signature = signature]

\* The image item of a data URL, or the error thrown without a match.
InlineImageItem(matches) ==
    IF matches.ok
    THEN [ok |-> TRUE, error |-> "",
          items |-> <<[NoItem EXCEPT !.type = "image",
                         !.data = Some(matches.data),
                         !.mime_type = Some(matches.mimeType)]>>]
    ELSE [ok |-> FALSE, error |-> "Invalid data URL format", items |-> <<>>]

\* The body of the map callback of formatContent: [] stands for undefined,
\* which the trailing filter removes.
FormatBlock(b) ==
    IF b.type = "text"
    THEN [ok |-> TRUE, error |-> "",
          items |-> <<TextItem(IF Truthy(b.text) THEN Get(b.text) ELSE "")>>]
    ELSE IF b.type = "image_url"
    THEN IF ~IsSome(b.image_url)
         THEN [ok |-> FALSE, error |-> "Invalid image_url format", items |-> <<>>]
         ELSE IF startsWith(Get(b.image_url), "data:")
         THEN InlineImageItem(DataUrlMatch(Get(b.image_url)))
         ELSE [ok |-> TRUE, error |-> "",
               items |-> <<[NoItem EXCEPT !.type = "image",
                              !.uri = IF UrlString(Get(b.image_url)) # ""
                                      THEN Some(UrlString(Get(b.image_url)))
                                      ELSE None]>>]
    ELSE [ok |-> TRUE, error |-> "", items |-> <<>>]

\* content.map(...) and the filter of undefined, or the first error thrown.
FilteredItems(r) ==
    IF FirstFailure(r) # 0
    THEN [ok |-> FALSE, error |-> r[FirstFailure(r)].error, items |-> <<>>]
    ELSE [ok |-> TRUE, error |-> "",
          items |-> Flatten([i \in 1..Len(r) |-> r[i].items])]

formatContent(content) ==
    IF content.kind = "string"
    THEN [ok |-> TRUE, error |-> "", items |-> <<TextItem(content.text)>>]
    ELSE FilteredItems(Map(content.blocks, FormatBlock))

\* Strings JSON.parse accepts, among the tool results of the model.
JsonTexts == {"42"}

formatToolResult(content) ==
    IF content.kind = "string" /\ content.text \in JsonTexts
    THEN [kind |-> "json", text |-> content.text, blocks |-> <<>>]
    ELSE content

FunctionCallItem(toolCall) ==
    [NoItem EXCEPT !.type = "function_call",
                   !.id = Some(IF IsSome(toolCall.id) THEN Get(toolCall.id) ELSE ""),
                   !.name = Some(toolCall.name),
                   !.arguments = toolCall.args]

\* The AI branch with the thought item pushed after the other items.
ModelTurnItemsThoughtLast(message, contentItems) ==
    contentItems
    \o Map(message.tool_calls, FunctionCallItem)
    \o (IF IsSome(message.response_metadata.thought_signature)
        THEN <<ThoughtItem(message.response_metadata.thought_signature)>>
        ELSE <<>>)

\* The AI branch of convertMessageToGoogleTurn: thought, content, tool calls.
ModelTurnItems(message, contentItems) ==
    (IF IsSome(message.response_metadata.thought_signature)
     THEN <<ThoughtItem(message.response_metadata.thought_signature)>>
     ELSE <<>>)
    \o contentItems
    \o Map(message.tool_calls, FunctionCallItem)

TurnOf(role, f) ==
    IF ~f.ok THEN [ok |-> FALSE, error |-> f.error, turn |-> None]
    ELSE [ok |-> TRUE, error |-> "", turn |-> Some([role |-> role, content |-> f.items])]

\* The 'model' turn of an AI message whose content gave the items of f.
ModelTurn(message, f) ==
    TurnOf("model", [f EXCEPT !.items = ModelTurnItems(message, f.items)])

convertMessageToGoogleTurn(message) ==
    IF IsHuman(message) THEN TurnOf("user", formatContent(message.content))
    ELSE IF IsAI(message)
    THEN ModelTurn(message,
             IF message.content.kind = "string"
             THEN [ok |-> TRUE, error |-> "",
                   items |-> IF message.content.text # ""
                             THEN <<TextItem(message.content.text)>> ELSE <<>>]
             ELSE formatContent(message.content))
    ELSE IF IsTool(message)
    THEN TurnOf("user",
             [ok |-> TRUE, error |-> "",
              items |-> <<[NoItem EXCEPT !.type = "function_result",
                             !.call_id = message.tool_call_id,
                             !.name = message.name,
                             !.result = Some(formatToolResult(message.content)),
                             !.is_error = (message.status = "error")]>>])
    ELSE IF IsSystem(message) THEN [ok |-> TRUE, error |-> "", turn |-> None]
    ELSE IF IsChat(message)
    THEN TurnOf(IF message.role = "assistant" THEN "model" ELSE message.role,
                formatContent(message.content))
    ELSE [ok |-> FALSE, error |-> "Unsupported message type: " \o message.type,
          turn |-> None]

\* The text a system message adds to system_instruction.
SystemText(message) ==
    IF message.content.kind = "string" THEN message.content.text
    ELSE Join(Map(SelectSeq(message.content.blocks, LAMBDA b : b.type = "text"),
                  LAMBDA b : IF IsSome(b.text) THEN Get(b.text) ELSE ""),
              "\n")

\* The text of the last system message replaces the instruction.
KeepLastSystemText(system_instruction, content) ==
    IF content = "" THEN system_instruction ELSE Some(content)

\* if (content) { system_instruction += '\n' + content, or = content }
AddSystemText(system_instruction, content) ==
    IF content = "" THEN system_instruction
    ELSE IF Truthy(system_instruction)
    THEN Some(Get(system_instruction) \o "\n" \o content)
    ELSE Some(content)

RECURSIVE InteractionLoop(_, _, _, _)

\* if (turn) input.push(turn), unless convertMessageToGoogleTurn threw.
PushTurn(msgs, i, input, system_instruction, t) ==
    IF ~t.ok
    THEN [ok |-> FALSE, error |-> t.error, input |-> <<>>,
          system_instruction |-> None]
    ELSE InteractionLoop(msgs, i + 1,
             IF IsSome(t.turn) THEN Append(input, Get(t.turn)) ELSE input,
             system_instruction)

\* for (const message of messages)
InteractionLoop(msgs, i, input, system_instruction) ==
    IF i > Len(msgs)
    THEN [ok |-> TRUE, error |-> "", input |-> input,
          system_instruction |-> system_instruction]
    ELSE IF IsSystem(msgs[i])
    THEN InteractionLoop(msgs, i + 1, input,
             AddSystemText(system_instruction, SystemText(msgs[i])))
    ELSE PushTurn(msgs, i, input, system_instruction,
                  convertMessageToGoogleTurn(msgs[i]))

convertMessagesToGoogleInteractionPayload(msgs) ==
    InteractionLoop(msgs, 1, <<>>, None)

-----------------------------------------------------------------------------
(* Standard protocol: the full-response decoder.                           *)

\* uuidv4(): the n-th identifier generated; each call yields a fresh one.
uuidv4(n) == "uuid-" \o ToString(n)

\* The loop state of convertGoogleResponseToChatGeneration before any part.
DecodeStart(n) ==
    [textContent |-> "", contentBlocks |-> <<>>, toolCalls |-> <<>>,
     responseMetadata |-> NoMetadata, uuids |-> n]

\* The signature capture keeping the first signature instead of the last.
CaptureFirstSignature(responseMetadata, part) ==
    IF Truthy(part.thoughtSignature) /\ ~IsSome(responseMetadata.thoughtSignature)
    THEN [responseMetadata EXCEPT !.thoughtSignature = part.thoughtSignature]
    ELSE responseMetadata

\* Critical: Capture Thought Signature.
CaptureThoughtSignature(responseMetadata, part) ==
    IF Truthy(part.thoughtSignature)
    THEN [responseMetadata EXCEPT !.thoughtSignature = part.thoughtSignature]
    ELSE responseMetadata

\* One pass of the loop over candidate.content.parts.
DecodePart(st, part) ==
    LET isText == Truthy(part.text)
        fc == part.functionCall
        fresh == IsSome(fc) /\ ~IsSome(Get(fc).id)
    IN  [textContent |->
             IF isText /\ ~part.thought THEN st.textContent \o Get(part.text)
             ELSE st.textContent,
         contentBlocks |->
             IF isText /\ part.thought
             THEN Append(st.contentBlocks, ReasoningBlock(Get(part.text)))
             ELSE IF isText THEN Append(st.contentBlocks, TextBlock(Get(part.text)))
             ELSE st.contentBlocks,
         toolCalls |->
             IF IsSome(fc)
             THEN Append(st.toolCalls,
                      ToolCall(Get(fc).name, Get(fc).args,
                               IF fresh THEN Some(uuidv4(st.uuids + 1)) ELSE Get(fc).id))
             ELSE st.toolCalls,
         responseMetadata |-> CaptureThoughtSignature(st.responseMetadata, part),
         uuids |-> IF fresh THEN st.uuids + 1 ELSE st.uuids]

RECURSIVE DecodeParts(_, _)
DecodeParts(st, parts) ==
    IF parts = <<>> THEN st ELSE DecodeParts(DecodePart(st, Head(parts)), Tail(parts))

HasReasoning(contentBlocks) ==
    \E k \in 1..Len(contentBlocks) : contentBlocks[k].type = "reasoning"

\* hasReasoning ? contentBlocks : textContent
StandardFinalContent(contentBlocks, textContent) ==
    IF HasReasoning(contentBlocks) THEN ArrayContent(contentBlocks)
    ELSE StringContent(textContent)

FirstCandidate(resp) ==
    IF IsSome(resp.candidates) /\ Len(Get(resp.candidates)) > 0
    THEN Some(Get(resp.candidates)[1]) ELSE None

NoGeneration == [ok |-> FALSE, error |-> "", text |-> "",
                 message |-> AIMessage(StringContent(""), <<>>, NoMetadata),
                 uuids |-> 0]

\* A decoder that answers a missing candidate with an empty message.
BestEffortIfNoCandidate(resp, n) ==
    [NoGeneration EXCEPT !.ok = TRUE, !.uuids = n]

\* if (!candidate || !candidate.content) throw
ThrowIfNoCandidate(resp, n) ==
    [NoGeneration EXCEPT !.error = "No candidates returned from Google GenAI.",
                         !.uuids = n]

\* The generation returned once the loop over the parts ended in state st.
StandardGeneration(st) ==
    [ok |-> TRUE, error |-> "", text |-> st.textContent,
     message |-> AIMessage(StandardFinalContent(st.contentBlocks, st.textContent),
                           st.toolCalls, st.responseMetadata),
     uuids |-> st.uuids]

\* if (candidate.content.parts) for (const part of candidate.content.parts)
DecodeContent(content, n) ==
    StandardGeneration(
        DecodeParts(DecodeStart(n),
                    IF IsSome(content.parts) THEN Get(content.parts) ELSE <<>>))

convertGoogleResponseToChatGeneration(resp, n) ==
    IF ~IsSome(FirstCandidate(resp)) \/ ~IsSome(Get(FirstCandidate(resp)).content)
    THEN ThrowIfNoCandidate(resp, n)
    ELSE DecodeContent(Get(Get(FirstCandidate(resp)).content), n)

-----------------------------------------------------------------------------
(* Interactions protocol: the full-response decoder.                       *)

InteractionStart ==
    [textContent |-> "", contentBlocks |-> <<>>, toolCalls |-> <<>>,
     responseMetadata |-> NoMetadata]

\* One pass of the loop over response.outputs.
DecodeOutput(st, output) ==
    IF output.type = "text"
    THEN [st EXCEPT !.textContent = @ \o output.text,
                    !.contentBlocks = Append(@, TextBlock(output.text))]
    ELSE IF output.type = "image"
    THEN [st EXCEPT !.contentBlocks = Append(@, ImageBlock(
             <<"data:",
               IF IsSome(output.mime_type) THEN Get(output.mime_type) ELSE "undefined",
               ";base64,",
               IF IsSome(output.data) THEN Get(output.data) ELSE "undefined">>))]
    ELSE IF output.type = "function_call"
    THEN [st EXCEPT !.toolCalls = Append(@,
             ToolCall(IF IsSome(output.name) THEN Get(output.name) ELSE "",
                      output.arguments, output.id))]
    ELSE IF output.type = "thought"
    THEN [st EXCEPT
             !.responseMetadata =
                 IF Truthy(output.signature)
                 THEN [@ EXCEPT !.thought_signature = output.signature] ELSE @,
             !.contentBlocks =
                 IF Len(output.summary) > 0
                 THEN Append(@, ReasoningBlock(Join(
                          Map(output.summary,
                              LAMBDA x : IF x.type = "text" THEN x.text ELSE ""),
                          "\n")))
                 ELSE @]
    ELSE st

RECURSIVE DecodeOutputs(_, _)
DecodeOutputs(st, outputs) ==
    IF outputs = <<>> THEN st
    ELSE DecodeOutputs(DecodeOutput(st, Head(outputs)), Tail(outputs))

\* Flatten content to string if it only contains text; an empty block list
\* gives the (empty) text.
InteractionFinalContent(contentBlocks, textContent) ==
    LET isOnlyText == \A k \in 1..Len(contentBlocks) : contentBlocks[k].type = "text"
    IN  IF isOnlyText /\ textContent # "" THEN StringContent(textContent)
        ELSE IF Len(contentBlocks) > 0 THEN ArrayContent(contentBlocks)
        ELSE StringContent(textContent)

\* The generation returned once the loop over the outputs ended in state st.
InteractionGeneration(st) ==
    [ok |-> TRUE, error |-> "", text |-> st.textContent,
     message |-> AIMessage(InteractionFinalContent(st.contentBlocks, st.textContent),
                           st.toolCalls, st.responseMetadata),
     uuids |-> 0]

convertInteractionToChatGeneration(resp) ==
    InteractionGeneration(
        DecodeOutputs(InteractionStart,
                      IF IsSome(resp.outputs) THEN Get(resp.outputs) ELSE <<>>))

-----------------------------------------------------------------------------
(* Standard protocol: stream chunks and their fold.  AIMessageChunk.concat *)
(* and ChatGenerationChunk.concat are @langchain/core's: content is merged *)
(* by mergeContent, block lists and tool_call_chunks by index, and the     *)
(* strings of response_metadata are concatenated.                          *)

\* JSON.stringify of a value: a string, here a tuple of tokens so that the
\* concatenation of two documents is not a document.
JSONstringify(value) == <<"json", value>>

\* A string that parses as one JSON object.
IsJsonObject(str) == Len(str) = 2 /\ str[1] = "json"

JSONparse(str) == str[2]

MessageChunk(content) ==
    [content |-> content, tool_call_chunks |-> <<>>,
     response_metadata |-> NoMetadata, usage_metadata |-> None]

convertFunctionCallToToolCallChunk(fc, index, n) ==
    [name |-> fc.name, args |-> JSONstringify(fc.args),
     id |-> IF IsSome(fc.id) THEN Get(fc.id) ELSE uuidv4(n + 1),
     index |-> index]

\* if (part.thoughtSignature) responseMetadata['thoughtSignature'] = ...
PartMetadata(part) ==
    IF Truthy(part.thoughtSignature)
    THEN [NoMetadata EXCEPT !.thoughtSignature = part.thoughtSignature]
    ELSE NoMetadata

convertPartToChunk(part, index, n) ==
    IF IsSome(part.text)
    THEN IF part.thought
         THEN [MessageChunk(ArrayContent(
                   <<[ReasoningBlock(Get(part.text)) EXCEPT !.index = Some(0)]>>))
               EXCEPT !.response_metadata = PartMetadata(part)]
         ELSE [MessageChunk(StringContent(Get(part.text)))
               EXCEPT !.response_metadata = PartMetadata(part)]
    ELSE IF IsSome(part.functionCall)
    THEN [MessageChunk(StringContent(""))
          EXCEPT !.tool_call_chunks =
                     <<convertFunctionCallToToolCallChunk(
                           Get(part.functionCall), index, n)>>,
                 !.response_metadata = PartMetadata(part)]
    ELSE [MessageChunk(StringContent("")) EXCEPT
                 !.response_metadata = PartMetadata(part)]

\* _mergeDicts on two optional strings: the defined one, or both concatenated.
MergeOptionalStrings(left, right) ==
    IF ~IsSome(left) THEN right
    ELSE IF ~IsSome(right) THEN left
    ELSE Some(Get(left) \o Get(right))

\* _mergeObj on two content blocks of one index: 'type' is kept, strings are
\* concatenated, the equal index is kept.
MergeBlocks(left, right) ==
    [left EXCEPT !.text = MergeOptionalStrings(left.text, right.text),
                 !.reasoning = MergeOptionalStrings(left.reasoning, right.reasoning)]

\* _mergeObj on two tool call chunks: 'name' and 'id' take the later value
\* when it is not empty, 'args' are concatenated.
MergeToolCallChunks(left, right) ==
    [left EXCEPT !.name = IF right.name # "" THEN right.name ELSE @,
                 !.id = IF right.id # "" THEN right.id ELSE @,
                 !.args = @ \o right.args]

\* The first position of `merged` that _mergeLists merges a block into, or 0.
BlockToMerge(merged, item) ==
    IF IsSome(item.index)
       /\ \E k \in 1..Len(merged) : merged[k].index = item.index
    THEN CHOOSE k \in 1..Len(merged) :
             /\ merged[k].index = item.index
             /\ \A j \in 1..(k - 1) : merged[j].index # item.index
    ELSE 0

\* One pass of _mergeLists over content blocks: the item is merged into the
\* block k of its index, dropped when it is an empty text, or appended.
MergeBlockAt(merged, item, k) ==
    IF k # 0 THEN [merged EXCEPT ![k] = MergeBlocks(@, item)]
    ELSE IF ~IsSome(item.index) /\ item.text = Some("") THEN merged
    ELSE Append(merged, item)

RECURSIVE MergeBlockLists(_, _)
MergeBlockLists(merged, right) ==
    IF right = <<>> THEN merged
    ELSE MergeBlockLists(
             MergeBlockAt(merged, Head(right), BlockToMerge(merged, Head(right))),
             Tail(right))

ChunksMergeable(left, item) ==
    /\ left.index = item.index
    /\ left.id = item.id \/ left.id = "" \/ item.id = ""

ToolCallChunkToMerge(merged, item) ==
    IF \E k \in 1..Len(merged) : ChunksMergeable(merged[k], item)
    THEN CHOOSE k \in 1..Len(merged) :
             /\ ChunksMergeable(merged[k], item)
             /\ \A j \in 1..(k - 1) : ~ChunksMergeable(merged[j], item)
    ELSE 0

\* One pass of _mergeLists over tool call chunks.
MergeToolCallChunkAt(merged, item, k) ==
    IF k # 0 THEN [merged EXCEPT ![k] = MergeToolCallChunks(@, item)]
    ELSE Append(merged, item)

RECURSIVE MergeToolCallChunkLists(_, _)
MergeToolCallChunkLists(merged, right) ==
    IF right = <<>> THEN merged
    ELSE MergeToolCallChunkLists(
             MergeToolCallChunkAt(merged, Head(right),
                                  ToolCallChunkToMerge(merged, Head(right))),
             Tail(right))

mergeContent(first, second) ==
    IF first.kind = "string"
    THEN IF first.text = "" THEN second
         ELSE IF second.kind = "string"
         THEN StringContent(first.text \o second.text)
         ELSE ArrayContent(<<TextBlock(first.text)>> \o second.blocks)
    ELSE IF second.kind = "array"
    THEN ArrayContent(MergeBlockLists(first.blocks, second.blocks))
    ELSE IF second.text = "" THEN first
    ELSE ArrayContent(Append(first.blocks, TextBlock(second.text)))

\* AIMessageChunk.concat
concat(acc, chunk) ==
    [content |-> mergeContent(acc.content, chunk.content),
     tool_call_chunks |->
         MergeToolCallChunkLists(acc.tool_call_chunks, chunk.tool_call_chunks),
     response_metadata |->
         [thoughtSignature |->
              MergeOptionalStrings(acc.response_metadata.thoughtSignature,
                                   chunk.response_metadata.thoughtSignature),
          thought_signature |->
              MergeOptionalStrings(acc.response_metadata.thought_signature,
                                   chunk.response_metadata.thought_signature)],
     usage_metadata |->
         IF ~IsSome(acc.usage_metadata) THEN chunk.usage_metadata
         ELSE IF ~IsSome(chunk.usage_metadata) THEN acc.usage_metadata
         ELSE Some(Get(acc.usage_metadata) + Get(chunk.usage_metadata))]

\* The reduce over candidate.content.parts: None stands for null.
\* The part makes convertPartToChunk call uuidv4.
GeneratesId(part) ==
    ~IsSome(part.text) /\ IsSome(part.functionCall)
    /\ ~IsSome(Get(part.functionCall).id)

\* acc ? acc.concat(nextChunk) : nextChunk
Accumulate(acc, nextChunk) ==
    IF IsSome(acc) THEN Some(concat(Get(acc), nextChunk)) ELSE Some(nextChunk)

RECURSIVE ReduceParts(_, _, _, _)
ReduceParts(parts, index, acc, n) ==
    IF index >= Len(parts) THEN [chunk |-> acc, uuids |-> n]
    ELSE ReduceParts(parts, index + 1,
             Accumulate(acc, convertPartToChunk(parts[index + 1], index, n)),
             IF GeneratesId(parts[index + 1]) THEN n + 1 ELSE n)

\* The text of a chunk: its string content, or its text blocks joined.
ChunkText(content) ==
    IF content.kind = "string" THEN content.text
    ELSE Join(Map(SelectSeq(content.blocks,
                            LAMBDA b : b.type = "text" /\ IsSome(b.text)),
                  LAMBDA b : Get(b.text)), "")

\* A ChatGenerationChunk, or None for null.
\* new ChatGenerationChunk({ message: chunk, text: chunkText })
GenerationChunk(message) ==
    [text |-> ChunkText(message.content), message |-> message]

\* The tail of the converter once the reduce gave r: null without a chunk,
\* else the chunk with the usage metadata of the response attached.
ChunkOfReduction(resp, r) ==
    IF ~IsSome(r.chunk) THEN [chunk |-> None, uuids |-> r.uuids]
    ELSE [chunk |-> Some(GenerationChunk(
                        IF IsSome(resp.usageMetadata)
                        THEN [Get(r.chunk) EXCEPT
                                  !.usage_metadata = resp.usageMetadata]
                        ELSE Get(r.chunk))),
          uuids |-> r.uuids]

\* candidate.content?.parts?.reduce(..., null)
ReduceCandidate(content, n) ==
    IF IsSome(content) /\ IsSome(Get(content).parts)
    THEN ReduceParts(Get(Get(content).parts), 0, None, n)
    ELSE [chunk |-> None, uuids |-> n]

convertGoogleStreamChunkToLangChainChunk(resp, n) ==
    IF ~IsSome(FirstCandidate(resp))
    THEN [chunk |-> IF IsSome(resp.usageMetadata)
                    THEN Some([text |-> "",
                               message |-> [MessageChunk(StringContent(""))
                                   EXCEPT !.usage_metadata = resp.usageMetadata]])
                    ELSE None,
          uuids |-> n]
    ELSE ChunkOfReduction(resp,
             ReduceCandidate(Get(FirstCandidate(resp)).content, n))

\* ChatGenerationChunk.concat
concatGenerationChunks(finalC, chunk) ==
    [text |-> finalC.text \o chunk.text,
     message |-> concat(finalC.message, chunk.message)]

\* An accumulator that only keeps the chunk that was yielded last.
KeepLastChunk(finalC, chunk) == IF IsSome(chunk) THEN chunk ELSE finalC

\* if (!finalChunk) finalChunk = chunk; else finalChunk = finalChunk.concat(chunk)
\* for a chunk that was yielded (None: nothing was yielded).
FoldChunk(finalC, chunk) ==
    IF ~IsSome(chunk) THEN finalC
    ELSE IF ~IsSome(finalC) THEN chunk
    ELSE Some(concatGenerationChunks(Get(finalC), Get(chunk)))

\* The tool_calls an AIMessageChunk derives from its tool_call_chunks: the
\* chunks whose args parse as a JSON object.
ToolCallsOfChunks(tool_call_chunks) ==
    Map(SelectSeq(tool_call_chunks, LAMBDA c : IsJsonObject(c.args)),
        LAMBDA c : ToolCall(c.name, JSONparse(c.args), Some(c.id)))

\* The tail of _generate's streaming branch: an error without chunks, else
\* the generation of the folded chunk.
StreamedGeneration(finalC, n) ==
    IF ~IsSome(finalC)
    THEN [NoGeneration EXCEPT !.error = "No chunks returned from Google GenAI.",
                              !.uuids = n]
    ELSE [ok |-> TRUE, error |-> "", text |-> Get(finalC).text,
          message |-> AIMessage(Get(finalC).message.content,
                          ToolCallsOfChunks(Get(finalC).message.tool_call_chunks),
                          Get(finalC).message.response_metadata),
          uuids |-> n]

-----------------------------------------------------------------------------
(* The encoders applied to bounded message lists.                          *)

MaxMessages == 3

SigS == "S"
SigT == "T"

CallF == ToolCall("f", "{x:1}", Some("id1"))
CallG == ToolCall("g", "{}", None)

EncoderMessages ==
    { HumanMessage(StringContent("a")),
      HumanMessage(StringContent("b")),
      HumanMessage(StringContent("")),
      HumanMessage(ArrayContent(<<TextBlock("a"), ImageBlock(DataUrl)>>)),
      HumanMessage(ArrayContent(<<ImageBlock(HttpsUrl)>>)),
      HumanMessage(ArrayContent(<<ImageBlock(MalformedDataUrl)>>)),
      HumanMessage(ArrayContent(<<OtherBlock("audio")>>)),
      AIMessage(StringContent("a"), <<>>, NoMetadata),
      AIMessage(StringContent(""), <<CallF>>,
                [NoMetadata EXCEPT !.thoughtSignature = Some(SigS)]),
      AIMessage(StringContent(""), <<>>,
                [NoMetadata EXCEPT !.thoughtSignature = Some(SigS)]),
      AIMessage(ArrayContent(<<ReasoningBlock("r"), TextBlock("a")>>), <<CallF, CallG>>,
                [thoughtSignature |-> Some(SigS), thought_signature |-> Some(SigT)]),
      AIMessage(StringContent("a"), <<>>,
                [NoMetadata EXCEPT !.thought_signature = Some(SigT)]),
      AIMessage(StringContent(""), <<CallF>>,
                [NoMetadata EXCEPT !.thought_signature = Some(SigT)]),
      AIMessage(StringContent("b"), <<>>,
                [NoMetadata EXCEPT !.thoughtSignature = Some("")]),
      ToolMessage(StringContent("res"), Some("f"), "id1"),
      ToolMessage(StringContent("42"), None, "id2"),
      SystemMessage(StringContent("s")),
      SystemMessage(ArrayContent(<<TextBlock("s1"), TextBlock("s2")>>)),
      ChatMessage("assistant", StringContent("a")),
      ChatMessage("critic", StringContent("b")) }

MessageLists == UNION {[1..n -> EncoderMessages] : n \in 0..MaxMessages}

\* No run of _streamResponseChunks is observed, no call is recorded and no
\* object is followed.
NoStreamRun ==
    /\ asked = 0 /\ yielded = <<>> /\ callbacks = <<>>
    /\ constructedWith = None /\ calledWith = None /\ heap = <<>>

Idle ==
    /\ NoStreamRun
    /\ response = None /\ pending = <<>> /\ finalChunk = None
    /\ generation = None /\ uuids = 0
    /\ instance = None /\ history = <<>> /\ request = None

InitEncode ==
    /\ pc = "start"
    /\ messages \in MessageLists
    /\ payload = None
    /\ Idle

EncodeStandard ==
    /\ pc = "start"
    /\ pc' = "standard"
    /\ payload' = Some(convertMessagesToGooglePayload(messages))
    /\ UNCHANGED <<messages, response, pending, finalChunk, generation, uuids,
                   instance, history, request,
                   asked, yielded, callbacks,
                   constructedWith, calledWith, heap>>

EncodeInteractions ==
    /\ pc = "start"
    /\ pc' = "interactions"
    /\ payload' = Some(convertMessagesToGoogleInteractionPayload(messages))
    /\ UNCHANGED <<messages, response, pending, finalChunk, generation, uuids,
                   instance, history, request,
                   asked, yielded, callbacks,
                   constructedWith, calledWith, heap>>

NextEncode == EncodeStandard \/ EncodeInteractions

SpecEncode == InitEncode /\ [][NextEncode]_vars

StandardReturned == pc = "standard" /\ Get(payload).ok
InteractionsReturned == pc = "interactions" /\ Get(payload).ok

-----------------------------------------------------------------------------
(* Properties of the encoders.                                             *)

ChatMessagesOf(msgs) == SelectSeq(msgs, NotSystem)

\* The wire role the standard protocol gives a message.
WireRole(m) == IF m.type = "ai" THEN "model" ELSE "user"

\* The positions that open a maximal run of one wire role.
RunStarts(chat) ==
    {i \in 1..Len(chat) : i = 1 \/ WireRole(chat[i]) # WireRole(chat[i - 1])}

NthRunStart(chat, k) ==
    CHOOSE s \in RunStarts(chat) :
        Cardinality({t \in RunStarts(chat) : t <= s}) = k

RunEnd(chat, s) ==
    CHOOSE e \in s..Len(chat) :
        /\ \A j \in s..e : WireRole(chat[j]) = WireRole(chat[s])
        /\ e = Len(chat) \/ WireRole(chat[e + 1]) # WireRole(chat[s])

RunParts(chat, s) ==
    Flatten([j \in 1..(RunEnd(chat, s) - s + 1) |-> MessageParts(chat[s + j - 1]).parts])

AllParts(contents) == Flatten([k \in 1..Len(contents) |-> contents[k].parts])

\* C1: whenever convertMessagesToGooglePayload returns, no two adjacent
\* entries of contents have the same role, and there is exactly one entry per
\* maximal run of non-system messages of one wire role ('model' for AI
\* messages, 'user' for the others), whose parts are the parts of the run's
\* messages concatenated in message order; human 'a' then human 'b' give one
\* 'user' entry with the parts [a, b].
C1_RoleRunsMerged ==
    StandardReturned =>
        LET chat == ChatMessagesOf(messages)
            contents == Get(payload).contents
        IN  /\ \A k \in 1..(Len(contents) - 1) : contents[k].role # contents[k + 1].role
            /\ Len(contents) = Cardinality(RunStarts(chat))
            /\ \A k \in 1..Len(contents) :
                   /\ contents[k].role = WireRole(chat[NthRunStart(chat, k)])
                   /\ contents[k].parts = RunParts(chat, NthRunStart(chat, k))
            /\ messages = <<HumanMessage(StringContent("a")),
                            HumanMessage(StringContent("b"))>>
               => contents = <<[role |-> "user",
                                parts |-> <<[EmptyPart EXCEPT !.text = Some("a")],
                                            [EmptyPart EXCEPT !.text = Some("b")]>>]>>

\* A run of two messages was merged and a role change opened a second entry.
C1_Witness ==
    /\ StandardReturned
    /\ Len(messages) = 3
    /\ WireRole(messages[1]) = WireRole(messages[2])
    /\ WireRole(messages[2]) # WireRole(messages[3])
    /\ \A i \in 1..3 : NotSystem(messages[i]) /\ MessageParts(messages[i]).parts # <<>>
    /\ Len(Get(payload).contents) = 2
    /\ Len(Get(payload).contents[1].parts) >= 2

\* C2 (as claimed): whenever convertMessagesToGoogleInteractionPayload
\* returns, no two adjacent turns of input have the same role.
C2_AdjacentTurnsMerged ==
    InteractionsReturned =>
        LET input == Get(payload).input
        IN  \A k \in 1..(Len(input) - 1) : input[k].role # input[k + 1].role

HasFunctionResponse(entry) ==
    \E k \in 1..Len(entry.parts) : IsSome(entry.parts[k].functionResponse)

HasFunctionResult(turn) ==
    \E k \in 1..Len(turn.content) : turn.content[k].type = "function_result"

CountIn(s, Test(_)) == Len(SelectSeq(s, Test))

\* C3: in both encoders every tool-result message is encoded, and only under
\* the role 'user': as a functionResponse part of a 'user' entry of contents,
\* and as a function_result item of a 'user' turn of input.
C3_ToolResultUnderUser ==
    /\ StandardReturned =>
           LET contents == Get(payload).contents
           IN  /\ \A k \in 1..Len(contents) :
                      HasFunctionResponse(contents[k]) => contents[k].role = "user"
               /\ CountIn(AllParts(contents), LAMBDA p : IsSome(p.functionResponse))
                      = CountIn(messages, IsTool)
    /\ InteractionsReturned =>
           LET input == Get(payload).input
           IN  /\ \A k \in 1..Len(input) :
                      HasFunctionResult(input[k]) => input[k].role = "user"
               /\ CountIn(Flatten([k \in 1..Len(input) |-> input[k].content]),
                          LAMBDA it : it.type = "function_result")
                      = CountIn(messages, IsTool)

\* A tool result that follows an AI message and is followed by one.
C3_Witness ==
    /\ StandardReturned
    /\ Len(messages) = 3
    /\ IsAI(messages[1]) /\ IsTool(messages[2]) /\ IsAI(messages[3])
    /\ Len(Get(payload).contents) = 3
    /\ HasFunctionResponse(Get(payload).contents[2])

\* The number of parts a message yields before the signature is reinjected.
BasePartCount(m) ==
    (IF m.content.kind = "string"
     THEN (IF m.content.text = "" THEN 0 ELSE 1)
     ELSE Len(m.content.blocks))
    + (IF IsAI(m) THEN Len(m.tool_calls) ELSE 0)
    + (IF IsTool(m) THEN 1 ELSE 0)

HasThoughtSignature(m) == IsAI(m) /\ IsSome(m.response_metadata.thoughtSignature)

SegmentLength(m) ==
    IF HasThoughtSignature(m) /\ BasePartCount(m) = 0 THEN 1 ELSE BasePartCount(m)

RECURSIVE SegmentOffset(_, _)
SegmentOffset(chat, i) ==
    IF i <= 1 THEN 0 ELSE SegmentOffset(chat, i - 1) + SegmentLength(chat[i - 1])

\* The wire parts of contents that message i of chat produced.
Segment(contents, chat, i) ==
    SubSeq(AllParts(contents), SegmentOffset(chat, i) + 1,
           SegmentOffset(chat, i) + SegmentLength(chat[i]))

\* C4: whenever convertMessagesToGooglePayload returns, each AI message whose
\* response_metadata.thoughtSignature is a string S has S on the last part it
\* produced (a functionCall part when it has tool calls) and on none of its
\* other parts; when it produced no part, its only part is an empty text
\* carrying S.  Merging into a preceding 'model' entry changes nothing.
C4_SignatureOnLastPart ==
    StandardReturned =>
        LET chat == ChatMessagesOf(messages)
            contents == Get(payload).contents
        IN  /\ Len(AllParts(contents)) = SegmentOffset(chat, Len(chat) + 1)
            /\ \A i \in 1..Len(chat) :
                   HasThoughtSignature(chat[i]) =>
                       LET seg == Segment(contents, chat, i)
                           S == chat[i].response_metadata.thoughtSignature
                       IN  /\ Len(seg) >= 1
                           /\ seg[Len(seg)].thoughtSignature = S
                           /\ \A k \in 1..(Len(seg) - 1) :
                                  seg[k].thoughtSignature = None
                           /\ chat[i].tool_calls # <<>>
                              => IsSome(seg[Len(seg)].functionCall)
                           /\ BasePartCount(chat[i]) = 0
                              => seg = <<[EmptyPart EXCEPT !.text = Some(""),
                                                           !.thoughtSignature = S]>>

\* A signed, text-less tool-call message merged into a preceding 'model'
\* entry and followed by a tool result; and a signed message with four parts.
C4_Witness ==
    /\ StandardReturned
    /\ Len(messages) = 3
    /\ IsAI(messages[1])
    /\ HasThoughtSignature(messages[1]) /\ BasePartCount(messages[1]) > 2
    /\ HasThoughtSignature(messages[2])
    /\ messages[2].content = StringContent("") /\ messages[2].tool_calls # <<>>
    /\ IsTool(messages[3])
    /\ Len(Get(payload).contents) = 2
    /\ LET parts == Get(payload).contents[1].parts
       IN  parts[Len(parts)].thoughtSignature = Some(SigS)

HasThought_Signature(m) == IsAI(m) /\ IsSome(m.response_metadata.thought_signature)

CarriesSignature(item) == IsSome(item.signature)

\* One turn per non-system message, in order.
TurnPerMessage ==
    Len(Get(payload).input) = Len(ChatMessagesOf(messages))

-----------------------------------------------------------------------------
(* The decoders and the stream fold applied to bounded responses.          *)

MaxParts == 3
MaxOutputs == 3

FunctionCallPart(toolCall) == [EmptyPart EXCEPT !.functionCall = Some(toolCall)]

ResponseParts ==
    { [EmptyPart EXCEPT !.text = Some("a")],
      [EmptyPart EXCEPT !.text = Some("b")],
      [EmptyPart EXCEPT !.text = Some("")],
      [EmptyPart EXCEPT !.text = Some("r"), !.thought = TRUE],
      FunctionCallPart(CallF),
      FunctionCallPart(CallG),
      [EmptyPart EXCEPT !.thoughtSignature = Some(SigS)],
      [FunctionCallPart(CallF) EXCEPT !.thoughtSignature = Some(SigS)],
      [EmptyPart EXCEPT !.text = Some("a"), !.thoughtSignature = Some(SigT)] }

\* A GenerateContentResponse: candidates?, each with content?.parts?.
GenerateContentResponse(candidates) ==
    [protocol |-> "standard", candidates |-> candidates, usageMetadata |-> None]

Candidate(content) == [content |-> content, finishReason |-> "STOP", index |-> 0]

ResponseOfParts(parts) ==
    GenerateContentResponse(Some(<<Candidate(Some([parts |-> Some(parts)]))>>))

StandardResponses ==
    { ResponseOfParts(parts) :
          parts \in UNION {[1..n -> ResponseParts] : n \in 0..MaxParts} }
    \cup { GenerateContentResponse(None),
           GenerateContentResponse(Some(<<>>)),
           GenerateContentResponse(Some(<<Candidate(None)>>)),
           GenerateContentResponse(Some(<<Candidate(Some([parts |-> None]))>>)) }

SummaryText(t) == [type |-> "text", text |-> t]

ResponseOutputs ==
    { TextItem("a"),
      TextItem(""),
      [NoItem EXCEPT !.type = "image", !.data = Some("QUJD"),
                     !.mime_type = Some("image/png")],
      [NoItem EXCEPT !.type = "function_call", !.id = Some("id1"),
                     !.name = Some("f"), !.arguments = "{x:1}"],
      ThoughtItem(Some(SigS)),
      [ThoughtItem(Some(SigT)) EXCEPT !.summary = <<SummaryText("r")>>],
      [ThoughtItem(None) EXCEPT !.summary = <<SummaryText("r"), SummaryText("q")>>],
      [NoItem EXCEPT !.type = "code_execution_result"] }

\* An Interactions.Interaction: outputs?.
Interaction(outputs) ==
    [protocol |-> "interactions", outputs |-> outputs, id |-> "i1",
     status |-> "completed"]

InteractionResponses ==
    { Interaction(Some(outputs)) :
          outputs \in UNION {[1..n -> ResponseOutputs] : n \in 0..MaxOutputs} }
    \cup { Interaction(None) }

\* The parts of the first candidate, when it has a part list.
PartsOf(resp) ==
    LET candidate == FirstCandidate(resp)
    IN  IF IsSome(candidate) /\ IsSome(Get(candidate).content)
           /\ IsSome(Get(Get(candidate).content).parts)
        THEN Get(Get(candidate).content).parts
        ELSE None

IdleEncoder ==
    /\ NoStreamRun
    /\ messages = <<>> /\ payload = None
    /\ instance = None /\ history = <<>> /\ request = None

InitDecode ==
    /\ pc = "received"
    /\ response \in StandardResponses \cup InteractionResponses
    /\ pending = IF response.protocol = "standard" /\ IsSome(PartsOf(response))
                 THEN Get(PartsOf(response)) ELSE <<>>
    /\ finalChunk = None
    /\ generation = None
    /\ uuids = 0
    /\ IdleEncoder

\* _generate without streaming: the response is decoded whole.
DecodeStandard ==
    /\ pc = "received"
    /\ response.protocol = "standard"
    /\ generation' = Some(convertGoogleResponseToChatGeneration(response, uuids))
    /\ uuids' = generation'[1].uuids
    /\ pc' = "decoded"
    /\ UNCHANGED <<messages, payload, response, pending, finalChunk, instance,
                   history, request,
                   asked, yielded, callbacks,
                   constructedWith, calledWith, heap>>

\* generateInteractions without streaming.
DecodeInteraction ==
    /\ pc = "received"
    /\ response.protocol = "interactions"
    /\ generation' = Some(convertInteractionToChatGeneration(response))
    /\ pc' = "decoded"
    /\ UNCHANGED <<messages, payload, response, pending, finalChunk, uuids,
                   instance, history, request,
                   asked, yielded, callbacks,
                   constructedWith, calledWith, heap>>

\* One pass of `for await (const chunk of stream)` of _generate with
\* streaming on: the server delivers the next k parts as one chunk, the chunk
\* is converted and, unless null, folded into finalChunk.
StreamChunk(k) ==
    /\ pc \in {"received", "streaming"}
    /\ response.protocol = "standard"
    /\ k \in 1..Len(pending)
    /\ \E r \in {convertGoogleStreamChunkToLangChainChunk(
                       ResponseOfParts(SubSeq(pending, 1, k)), uuids)} :
           /\ finalChunk' = FoldChunk(finalChunk, r.chunk)
           /\ uuids' = r.uuids
    /\ pending' = SubSeq(pending, k + 1, Len(pending))
    /\ pc' = "streaming"
    /\ UNCHANGED <<messages, payload, response, generation, instance, history,
                   request,
                   asked, yielded, callbacks,
                   constructedWith, calledWith, heap>>

\* The stream ends: _generate returns the folded chunk or throws.
StreamEnd ==
    /\ pc \in {"received", "streaming"}
    /\ response.protocol = "standard"
    /\ IsSome(PartsOf(response))
    /\ pending = <<>>
    /\ generation' = Some(StreamedGeneration(finalChunk, uuids))
    /\ pc' = "streamed"
    /\ UNCHANGED <<messages, payload, response, pending, finalChunk, uuids,
                   instance, history, request,
                   asked, yielded, callbacks,
                   constructedWith, calledWith, heap>>

NextDecode ==
    \/ DecodeStandard
    \/ DecodeInteraction
    \/ \E k \in 1..MaxParts + 1 : StreamChunk(k)
    \/ StreamEnd

SpecDecode == InitDecode /\ [][NextDecode]_vars

StandardDecoded == pc = "decoded" /\ response.protocol = "standard"
InteractionDecoded == pc = "decoded" /\ response.protocol = "interactions"

-----------------------------------------------------------------------------
(* Properties of the decoders and of the stream fold.                      *)

Decoded == Get(generation)

\* The signature of the last element of `sigs` that has a non-empty one.
LastSignature(sigs) ==
    LET signed == {i \in 1..Len(sigs) : Truthy(sigs[i])}
    IN  IF signed = {} THEN None
        ELSE sigs[CHOOSE i \in signed : \A j \in signed : j <= i]

PartSignatures(resp) ==
    LET parts == Get(PartsOf(resp))
    IN  [i \in 1..Len(parts) |-> parts[i].thoughtSignature]

OutputsOf(resp) == IF IsSome(resp.outputs) THEN Get(resp.outputs) ELSE <<>>

ThoughtSignatures(resp) ==
    LET outputs == OutputsOf(resp)
    IN  [i \in 1..Len(outputs) |->
            IF outputs[i].type = "thought" THEN outputs[i].signature ELSE None]

\* C7: the message decoded from a whole response has as signature metadata
\* the signature of the last part (standard, under thoughtSignature) or of
\* the last thought item (interactions, under thought_signature) that carries
\* one, and no signature metadata at all when none carries one.
C7_LastSignatureWins ==
    /\ StandardDecoded /\ Decoded.ok /\ IsSome(PartsOf(response)) =>
           Decoded.message.response_metadata =
               [NoMetadata EXCEPT
                    !.thoughtSignature = LastSignature(PartSignatures(response))]
    /\ InteractionDecoded =>
           Decoded.message.response_metadata =
               [NoMetadata EXCEPT
                    !.thought_signature = LastSignature(ThoughtSignatures(response))]

\* A standard response whose signatures S and then T were decoded to T.
C7_Witness ==
    /\ StandardDecoded /\ Decoded.ok /\ IsSome(PartsOf(response))
    /\ \E i, j \in 1..Len(pending) :
           /\ i < j
           /\ pending[i].thoughtSignature = Some(SigS)
           /\ pending[j].thoughtSignature = Some(SigT)
           /\ \A k \in (j + 1)..Len(pending) : ~IsSome(pending[k].thoughtSignature)
    /\ Decoded.message.response_metadata.thoughtSignature = Some(SigT)

\* Content blocks compared without the merge index the stream attaches.
WithoutIndex(content) ==
    [content EXCEPT !.blocks = [k \in 1..Len(@) |-> [@[k] EXCEPT !.index = None]]]

GeneratedIds == {Some(uuidv4(n)) : n \in 1..(2 * MaxParts)}

\* Tool calls are equal up to the identifiers that uuidv4 generated.
SameToolCalls(left, right) ==
    /\ Len(left) = Len(right)
    /\ \A k \in 1..Len(left) :
           /\ left[k].name = right[k].name
           /\ left[k].args = right[k].args
           /\ \/ left[k].id = right[k].id
              \/ left[k].id \in GeneratedIds /\ right[k].id \in GeneratedIds

\* C8: stream equivalence -- however the parts of a standard response are
\* split into chunks, the fold of the converted chunks is a message with the
\* content, tool calls and signature of the decoded unsplit response.
C8_StreamEquivalence ==
    pc = "streamed" =>
        LET whole == convertGoogleResponseToChatGeneration(response, 0)
        IN  /\ whole.ok
            /\ Decoded.ok
            /\ WithoutIndex(Decoded.message.content) = whole.message.content
            /\ SameToolCalls(Decoded.message.tool_calls, whole.message.tool_calls)
            /\ Decoded.message.response_metadata = whole.message.response_metadata

\* The response makes the decoder produce a reasoning block.
ProducesReasoning(resp) ==
    IF resp.protocol = "standard"
    THEN /\ IsSome(PartsOf(resp))
         /\ \E k \in 1..Len(Get(PartsOf(resp))) :
                Get(PartsOf(resp))[k].thought /\ Truthy(Get(PartsOf(resp))[k].text)
    ELSE \E k \in 1..Len(OutputsOf(resp)) :
             OutputsOf(resp)[k].type = "thought" /\ Len(OutputsOf(resp)[k].summary) > 0

\* The number of content blocks the response makes the decoder produce.
ProducedBlocks(resp) ==
    IF resp.protocol = "standard"
    THEN IF IsSome(PartsOf(resp))
         THEN Len(SelectSeq(Get(PartsOf(resp)), LAMBDA part : Truthy(part.text)))
         ELSE 0
    ELSE Len(SelectSeq(OutputsOf(resp),
                 LAMBDA o : \/ o.type \in {"text", "image"}
                            \/ o.type = "thought" /\ Len(o.summary) > 0))

\* C9: for both decoders the content of the decoded message is a plain
\* string exactly when the response produced no reasoning block, and the full
\* ordered block sequence otherwise; never both forms.
C9_StringIffNoReasoning ==
    pc = "decoded" /\ Decoded.ok =>
        LET content == Decoded.message.content
        IN  /\ content.kind = "string" <=> ~ProducesReasoning(response)
            /\ content.kind = "string" => content.blocks = <<>>
            /\ content.kind = "array" =>
                   /\ content.text = ""
                   /\ Len(content.blocks) = ProducedBlocks(response)

NoCandidateContent(resp) ==
    \/ ~IsSome(resp.candidates)
    \/ Get(resp.candidates) = <<>>
    \/ ~IsSome(Get(resp.candidates)[1].content)

\* C10: the standard decoder throws, and returns no message, whenever the
\* candidate list is missing or empty or the first candidate has no content.
C10_ThrowsWithoutCandidate ==
    StandardDecoded /\ NoCandidateContent(response) =>
        /\ ~Decoded.ok
        /\ Decoded.error = "No candidates returned from Google GenAI."

\* The decoder was run on a response with an empty candidate list and threw.
C10_Witness ==
    /\ StandardDecoded
    /\ response.candidates = Some(<<>>)
    /\ ~Decoded.ok

\* C11: the interactions decoder throws, and returns no message, whenever the
\* response carries no output at all (outputs missing or empty).
C11_ThrowsWithoutOutput ==
    InteractionDecoded /\ OutputsOf(response) = <<>> => ~Decoded.ok

-----------------------------------------------------------------------------
(* One ChatGoogleGenAI instance: construction, routing and request build.  *)

NoInstance == [model |-> None, agent |-> None, background |-> None,
               store |-> None, useExperimentalInteractionsApi |-> FALSE,
               apiKey |-> None, streaming |-> FALSE]

Constructed(ok, error, obj) == [ok |-> ok, error |-> error, instance |-> obj]

\* A constructor that validates nothing.
UnvalidatedConstructor(fields, env) ==
    Constructed(TRUE, "",
        [model |-> fields.model, agent |-> fields.agent,
         background |-> fields.background, store |-> fields.store,
         useExperimentalInteractionsApi |->
             fields.useExperimentalInteractionsApi = Some(TRUE),
         apiKey |-> fields.apiKey, streaming |-> fields.streaming = Some(TRUE)])

\* constructor(fields); env is the value of GOOGLE_API_KEY.
constructor(fields, env) ==
    LET apiKey == IF IsSome(fields.apiKey) THEN fields.apiKey ELSE env
    IN  IF Truthy(fields.model) /\ Truthy(fields.agent)
        THEN Constructed(FALSE,
                 "Both \"model\" and \"agent\" cannot be specified. Please provide only one.",
                 NoInstance)
        ELSE IF ~Truthy(fields.model) /\ ~Truthy(fields.agent)
        THEN Constructed(FALSE,
                 "Either \"model\" or \"agent\" must be specified in the constructor fields.",
                 NoInstance)
        ELSE IF fields.store = Some(FALSE) /\ fields.background = Some(TRUE)
        THEN Constructed(FALSE,
                 "Invalid configuration: \"store\" cannot be false when \"background\" is true.",
                 NoInstance)
        ELSE IF Truthy(fields.agent)
                /\ fields.useExperimentalInteractionsApi = Some(FALSE)
        THEN Constructed(FALSE,
                 "When \"agent\" is specified, \"useExperimentalInteractionsApi\" must be true.",
                 NoInstance)
        ELSE IF ~Truthy(apiKey)
        THEN Constructed(FALSE, "Google API key not found.", NoInstance)
        ELSE Constructed(TRUE, "",
                 [model |-> fields.model, agent |-> fields.agent,
                  background |-> fields.background, store |-> fields.store,
                  useExperimentalInteractionsApi |->
                      IF Truthy(fields.agent) THEN TRUE
                      ELSE IF IsSome(fields.useExperimentalInteractionsApi)
                      THEN Get(fields.useExperimentalInteractionsApi)
                      ELSE FALSE,
                  apiKey |-> apiKey,
                  streaming |-> IF IsSome(fields.streaming)
                                THEN Get(fields.streaming) ELSE FALSE])

\* Routing that looks at the instance only, and routing that never leaves
\* the standard protocol.
FlagOnly(this, options) == this.useExperimentalInteractionsApi
NeverInteractions(this, options) == FALSE

shouldUseInteractionsApi(this, options) ==
    this.useExperimentalInteractionsApi \/ Truthy(options.previousInteractionId)

NoRequest == [ok |-> FALSE, error |-> "", protocol |-> "", stream |-> FALSE,
              model |-> None, agent |-> None, contents |-> <<>>,
              systemInstruction |-> None, input |-> <<>>,
              system_instruction |-> None, previous_interaction_id |-> None,
              background |-> None, store |-> None]

\* options.background ?? this.background
Coalesce(first, second) == IF IsSome(first) THEN first ELSE second

\* The argument of client.models.generateContent / generateContentStream
\* for the payload p, unless the encoder or requiredModel threw.
GenerateContentParameters(this, p) ==
    IF ~p.ok THEN [NoRequest EXCEPT !.error = p.error, !.protocol = "standard"]
    ELSE IF ~Truthy(this.model)
    THEN [NoRequest EXCEPT !.protocol = "standard",
              !.error = "This operation requires a model to be specified."]
    ELSE [NoRequest EXCEPT !.ok = TRUE, !.protocol = "standard",
              !.stream = this.streaming, !.model = this.model,
              !.contents = p.contents,
              !.systemInstruction = p.systemInstruction]

StandardRequest(this, msgs, options) ==
    GenerateContentParameters(this, convertMessagesToGooglePayload(msgs))

interactiveAgentInvocationParams(this, input, options, stream) ==
    IF ~Truthy(this.agent)
    THEN [NoRequest EXCEPT !.protocol = "interactions",
              !.error = "This operation requires an agent to be specified."]
    ELSE [NoRequest EXCEPT !.ok = TRUE, !.protocol = "interactions",
              !.agent = this.agent,
              !.background = Coalesce(options.background, this.background),
              !.stream = stream, !.input = input,
              !.previous_interaction_id = options.previousInteractionId,
              !.store = this.store]

interactiveInvocationParams(this, input, system_instruction, options, stream) ==
    IF ~Truthy(this.model)
    THEN [NoRequest EXCEPT !.protocol = "interactions",
              !.error = "This operation requires a model to be specified."]
    ELSE [NoRequest EXCEPT !.ok = TRUE, !.protocol = "interactions",
              !.model = this.model, !.input = input,
              !.system_instruction = system_instruction,
              !.previous_interaction_id = options.previousInteractionId,
              !.background = Coalesce(options.background, this.background),
              !.stream = stream, !.store = this.store]

\* The argument of client.interactions.create for the payload p, unless
\* the encoder threw.
InteractionParameters(this, p, options) ==
    IF ~p.ok THEN [NoRequest EXCEPT !.error = p.error, !.protocol = "interactions"]
    ELSE IF Truthy(this.agent)
    THEN interactiveAgentInvocationParams(this, p.input, options, this.streaming)
    ELSE interactiveInvocationParams(this, p.input, p.system_instruction,
                                     options, this.streaming)

InteractionRequest(this, msgs, options) ==
    InteractionParameters(this, convertMessagesToGoogleInteractionPayload(msgs),
                          options)

\* The request _generate sends for a message list and call options.
RequestOf(this, msgs, options) ==
    IF shouldUseInteractionsApi(this, options)
    THEN InteractionRequest(this, msgs, options)
    ELSE StandardRequest(this, msgs, options)

-----------------------------------------------------------------------------
(* Interactions protocol: stream events and their fold.                    *)

NoDelta == [type |-> "", text |-> None, id |-> "", name |-> "", arguments |-> "",
            signature |-> None, content |-> None]

NoEvent == [event_type |-> None, delta |-> None, index |-> None,
            interaction |-> None]

ContentDelta(delta) ==
    [NoEvent EXCEPT !.event_type = Some("content.delta"), !.delta = Some(delta)]

\* A converter that has an (empty) chunk for every event.
ChunkOfEveryEvent(event) == Some(MessageChunk(StringContent("")))

\* An AIMessageChunk, or None for null.
makeMessageChunkFromGoogleInteractionEvent(event) ==
    IF ~IsSome(event.event_type) THEN None
    ELSE IF event.event_type = Some("content.delta")
    THEN IF ~IsSome(event.delta) THEN None
         ELSE LET delta == Get(event.delta)
              IN  IF delta.type = "text"
                  THEN Some(MessageChunk(StringContent(
                           IF Truthy(delta.text) THEN Get(delta.text) ELSE "")))
                  ELSE IF delta.type = "function_call"
                  THEN Some([MessageChunk(StringContent("")) EXCEPT
                           !.tool_call_chunks =
                               <<[name |-> delta.name,
                                  args |-> JSONstringify(delta.arguments),
                                  id |-> delta.id,
                                  index |-> IF IsSome(event.index)
                                            THEN Get(event.index) ELSE 0]>>])
                  ELSE IF delta.type = "thought_signature"
                  THEN Some([MessageChunk(StringContent("")) EXCEPT
                           !.response_metadata =
                               [NoMetadata EXCEPT !.thought_signature = delta.signature]])
                  ELSE IF delta.type = "thought_summary"
                  THEN Some(MessageChunk(ArrayContent(
                           <<[ReasoningBlock(
                                  IF IsSome(delta.content)
                                     /\ Get(delta.content).type = "text"
                                     /\ Truthy(Get(delta.content).text)
                                  THEN Get(Get(delta.content).text) ELSE "")
                              EXCEPT !.index = event.index]>>)))
                  ELSE None
    ELSE IF event.event_type = Some("interaction.complete")
            /\ IsSome(event.interaction) /\ IsSome(Get(event.interaction).usage)
    THEN Some([MessageChunk(StringContent("")) EXCEPT
                   !.usage_metadata = Get(event.interaction).usage])
    ELSE None

\* The loop of generateInteractions over the chunks that the events yield.
\* if (chunk) yield new ChatGenerationChunk({ message: chunk, text: chunk.text })
YieldedChunk(chunk) ==
    IF IsSome(chunk) THEN Some(GenerationChunk(Get(chunk))) ELSE None

RECURSIVE FoldInteractionEvents(_, _)
FoldInteractionEvents(events, finalC) ==
    IF events = <<>> THEN finalC
    ELSE FoldInteractionEvents(Tail(events),
             FoldChunk(finalC,
                 YieldedChunk(makeMessageChunkFromGoogleInteractionEvent(Head(events)))))

InteractionStreamedGeneration(finalC) ==
    IF ~IsSome(finalC)
    THEN [NoGeneration EXCEPT !.error = "No chunks from Interactions API"]
    ELSE StreamedGeneration(finalC, 0)

\* The loop of _generate over the chunks of a standard stream.
RECURSIVE FoldStreamChunks(_, _, _)

\* One pass of the loop: the converted chunk r is folded when not null.
FoldConverted(chunks, finalC, r) ==
    FoldStreamChunks(Tail(chunks), FoldChunk(finalC, r.chunk), r.uuids)

FoldStreamChunks(chunks, finalC, n) ==
    IF chunks = <<>> THEN [finalChunk |-> finalC, uuids |-> n]
    ELSE FoldConverted(chunks, finalC,
             convertGoogleStreamChunkToLangChainChunk(Head(chunks), n))

-----------------------------------------------------------------------------
(* A caller's conversation with one instance: each call sends the history, *)
(* and the message of the answer joins the history of the later calls.     *)

MaxCalls == 2

ConstructorFields ==
    [model : {None, Some("gemini-3-pro")},
     agent : {None, Some("deep-research")},
     background : {None, Some(TRUE)},
     store : {None, Some(FALSE)},
     useExperimentalInteractionsApi : {None, Some(TRUE), Some(FALSE)},
     apiKey : {None, Some("key")},
     streaming : {None, Some(TRUE)}]

Environment == {None, Some("env-key")}

CallOptions ==
    [previousInteractionId : {None, Some("i1")}, background : {None, Some(TRUE)}]

TextPart(t) == [EmptyPart EXCEPT !.text = Some(t)]
SignedCallPart == [FunctionCallPart(CallF) EXCEPT !.thoughtSignature = Some(SigS)]
SignedTextPart == [TextPart("a") EXCEPT !.thoughtSignature = Some(SigT)]
ThoughtPart == [TextPart("r") EXCEPT !.thought = TRUE]

CallResponses ==
    { ResponseOfParts(<<TextPart("a")>>),
      ResponseOfParts(<<SignedCallPart>>),
      ResponseOfParts(<<ThoughtPart, SignedTextPart>>),
      GenerateContentResponse(Some(<<>>)) }

CallStreams ==
    { <<ResponseOfParts(<<TextPart("a")>>), ResponseOfParts(<<TextPart("b")>>)>>,
      <<ResponseOfParts(<<SignedCallPart>>)>>,
      <<ResponseOfParts(<<ThoughtPart>>), ResponseOfParts(<<SignedTextPart>>)>>,
      <<>> }

FunctionCallOutput ==
    [NoItem EXCEPT !.type = "function_call", !.id = Some("id1"),
                   !.name = Some("f"), !.arguments = "{x:1}"]

CallInteractions ==
    { Interaction(Some(<<TextItem("a")>>)),
      Interaction(Some(<<ThoughtItem(Some(SigS)), FunctionCallOutput>>)),
      Interaction(Some(<<[ThoughtItem(Some(SigT)) EXCEPT
                              !.summary = <<SummaryText("r")>>],
                         TextItem("a")>>)),
      Interaction(None) }

CallEventStreams ==
    { <<ContentDelta([NoDelta EXCEPT !.type = "text", !.text = Some("a")])>>,
      <<ContentDelta([NoDelta EXCEPT !.type = "thought_signature",
                                     !.signature = Some(SigS)]),
        [ContentDelta([NoDelta EXCEPT !.type = "function_call", !.id = "id1",
                                      !.name = "f", !.arguments = "{x:1}"])
         EXCEPT !.index = Some(1)]>>,
      <<[ContentDelta([NoDelta EXCEPT !.type = "thought_summary",
                           !.content = Some([type |-> "text", text |-> Some("r")])])
         EXCEPT !.index = Some(0)],
        ContentDelta([NoDelta EXCEPT !.type = "thought_signature",
                                     !.signature = Some(SigT)]),
        ContentDelta([NoDelta EXCEPT !.type = "text", !.text = Some("a")]),
        [NoEvent EXCEPT !.event_type = Some("interaction.complete"),
                        !.interaction = Some([usage |-> Some(7), id |-> "i1"])]>>,
      <<>> }

This == Get(instance).instance

\* The message the caller adds before a call: the result of the tool the
\* last answer asked for, or else a question.
NextMessage(hist) ==
    IF hist # <<>> /\ IsAI(hist[Len(hist)]) /\ hist[Len(hist)].tool_calls # <<>>
    THEN LET toolCall == hist[Len(hist)].tool_calls[1]
         IN  ToolMessage(StringContent("42"), Some(toolCall.name),
                         IF IsSome(toolCall.id) THEN Get(toolCall.id) ELSE "")
    ELSE HumanMessage(StringContent("q"))

CallsMade(hist) == Len(SelectSeq(hist, LAMBDA m : ~IsAI(m)))

InitCalls ==
    /\ pc = "new"
    /\ instance = None
    /\ history = <<>>
    /\ messages = <<>>
    /\ request = None
    /\ response = None
    /\ generation = None
    /\ payload = None
    /\ pending = <<>>
    /\ finalChunk = None
    /\ uuids = 0
    /\ NoStreamRun

\* new ChatGoogleGenAI(fields)
Construct ==
    /\ pc = "new"
    /\ \E fields \in ConstructorFields, env \in Environment :
           /\ instance' = Some(constructor(fields, env))
           /\ pc' = IF constructor(fields, env).ok THEN "ready" ELSE "failed"
    /\ UNCHANGED <<messages, payload, response, pending, finalChunk, generation,
                   uuids, history, request,
                   asked, yielded, callbacks,
                   constructedWith, calledWith, heap>>

\* _generate up to the await on the client: routing, encoding, parameters.
Call ==
    /\ pc = "ready"
    /\ CallsMade(history) < MaxCalls
    /\ \E options \in CallOptions, msgs \in {Append(history, NextMessage(history))} :
           /\ history' = msgs
           /\ messages' = msgs
           /\ request' = Some(RequestOf(This, msgs, options))
           /\ pc' = IF request'[1].ok THEN "awaiting" ELSE "ready"
    /\ UNCHANGED <<payload, response, pending, finalChunk, generation, uuids,
                   instance,
                   asked, yielded, callbacks,
                   constructedWith, calledWith, heap>>

\* The rest of a call: the generation is returned (or the error thrown) and
\* the caller keeps the returned message in the history.
Return(resp, folded, g) ==
    /\ response' = Some(resp)
    /\ finalChunk' = folded
    /\ generation' = Some(g)
    /\ uuids' = g.uuids
    /\ history' = IF g.ok THEN Append(history, g.message) ELSE history
    /\ pc' = "ready"
    /\ UNCHANGED <<messages, payload, pending, instance, request,
                   asked, yielded, callbacks,
                   constructedWith, calledWith, heap>>

ReplyStandard ==
    /\ pc = "awaiting"
    /\ Get(request).protocol = "standard" /\ ~Get(request).stream
    /\ \E resp \in CallResponses :
           Return(resp, None, convertGoogleResponseToChatGeneration(resp, uuids))

ReplyStandardStream ==
    /\ pc = "awaiting"
    /\ Get(request).protocol = "standard" /\ Get(request).stream
    /\ \E chunks \in CallStreams :
           \E r \in {FoldStreamChunks(chunks, None, uuids)} :
               Return(chunks, r.finalChunk, StreamedGeneration(r.finalChunk, r.uuids))

ReplyInteraction ==
    /\ pc = "awaiting"
    /\ Get(request).protocol = "interactions" /\ ~Get(request).stream
    /\ \E resp \in CallInteractions :
           Return(resp, None,
                  [convertInteractionToChatGeneration(resp) EXCEPT !.uuids = uuids])

ReplyInteractionStream ==
    /\ pc = "awaiting"
    /\ Get(request).protocol = "interactions" /\ Get(request).stream
    /\ \E events \in CallEventStreams :
           \E folded \in {FoldInteractionEvents(events, None)} :
               Return(events, folded,
                      [InteractionStreamedGeneration(folded) EXCEPT !.uuids = uuids])

NextCalls ==
    \/ Construct
    \/ Call
    \/ ReplyStandard
    \/ ReplyStandardStream
    \/ ReplyInteraction
    \/ ReplyInteractionStream

SpecCalls == InitCalls /\ [][NextCalls]_vars

-----------------------------------------------------------------------------
(* Properties of a conversation.                                           *)

\* The continuation signature a decoder left in the metadata of a message.
MessageSignature(m) ==
    IF IsSome(m.response_metadata.thoughtSignature)
    THEN m.response_metadata.thoughtSignature
    ELSE m.response_metadata.thought_signature

\* The signatures of the AI messages of a history, in history order.
HistorySignatures(msgs) ==
    LET signed == SelectSeq(msgs, LAMBDA m : IsAI(m) /\ IsSome(MessageSignature(m)))
    IN  [k \in 1..Len(signed) |-> MessageSignature(signed[k])]

\* The signatures a request carries on its parts or items, in wire order.
RequestSignatures(req) ==
    IF req.protocol = "standard"
    THEN LET signed == SelectSeq(AllParts(req.contents),
                                 LAMBDA part : IsSome(part.thoughtSignature))
         IN  [k \in 1..Len(signed) |-> signed[k].thoughtSignature]
    ELSE LET items == Flatten([k \in 1..Len(req.input) |-> req.input[k].content])
             signed == SelectSeq(items, LAMBDA item : IsSome(item.signature))
         IN  [k \in 1..Len(signed) |-> signed[k].signature]

\* C6: in every request an instance builds, whichever protocol the call is
\* routed to, each AI message of the history that a decoder returned with a
\* continuation signature is encoded with that signature: the request carries
\* the signatures of the history, one per signed message and in order.
C6_SignatureNeverDropped ==
    IsSome(request) /\ Get(request).ok =>
        RequestSignatures(Get(request)) = HistorySignatures(messages)

-----------------------------------------------------------------------------
(* One message of bounded content through an encoder and the decoder of    *)
(* the same protocol (the wire parts/items the encoder produced are the    *)
(* content of the response that is decoded), and one standard response     *)
(* through the decoder and back through the encoder.                       *)

MaxBlocks == 3

ContentBlocks ==
    { TextBlock("a"), TextBlock("b"), TextBlock(""),
      ReasoningBlock("r"), ReasoningBlock(""),
      ImageBlock(DataUrl), ImageBlock(HttpsUrl), ImageBlock(GsUrl),
      ImageBlock(MalformedDataUrl), ImageBlock(OtherUrl),
      OtherBlock("text"), OtherBlock("image_url"), OtherBlock("audio") }

MessageContents ==
    { StringContent(t) : t \in {"", "a"} }
    \cup { ArrayContent(blocks) :
               blocks \in UNION {[1..n -> ContentBlocks] : n \in 0..MaxBlocks} }

ContentMessages ==
    { HumanMessage(content) : content \in MessageContents }
    \cup { AIMessage(content, <<CallF>>,
                     [thoughtSignature |-> Some(SigS),
                      thought_signature |-> Some(SigT)]) :
               content \in MessageContents }

InitContent ==
    /\ \/ /\ pc = "message"
          /\ \E m \in ContentMessages : messages = <<m>>
          /\ response = None
       \/ /\ pc = "wire"
          /\ messages = <<>>
          /\ response \in StandardResponses
    /\ payload = None
    /\ pending = <<>> /\ finalChunk = None /\ generation = None /\ uuids = 0
    /\ instance = None /\ history = <<>> /\ request = None
    /\ NoStreamRun

\* The parts / items of the one entry the encoder produced for the message.
EncodedParts(p) == IF Len(p.contents) > 0 THEN p.contents[1].parts ELSE <<>>
EncodedItems(p) == IF Len(p.input) > 0 THEN p.input[1].content ELSE <<>>

EncodeMessageStandard ==
    /\ pc = "message"
    /\ payload' = Some(convertMessagesToGooglePayload(messages))
    /\ pc' = "encoded standard"
    /\ UNCHANGED <<messages, response, pending, finalChunk, generation, uuids,
                   instance, history, request,
                   asked, yielded, callbacks,
                   constructedWith, calledWith, heap>>

EncodeMessageInteractions ==
    /\ pc = "message"
    /\ payload' = Some(convertMessagesToGoogleInteractionPayload(messages))
    /\ pc' = "encoded interactions"
    /\ UNCHANGED <<messages, response, pending, finalChunk, generation, uuids,
                   instance, history, request,
                   asked, yielded, callbacks,
                   constructedWith, calledWith, heap>>

\* decode(encode(m)), standard protocol.
DecodeEncodedStandard ==
    /\ pc = "encoded standard"
    /\ Get(payload).ok
    /\ \E resp \in {ResponseOfParts(EncodedParts(Get(payload)))} :
           /\ response' = resp
           /\ generation' = Some(convertGoogleResponseToChatGeneration(resp, uuids))
    /\ uuids' = generation'[1].uuids
    /\ pc' = "round trip standard"
    /\ UNCHANGED <<messages, payload, pending, finalChunk, instance, history,
                   request,
                   asked, yielded, callbacks,
                   constructedWith, calledWith, heap>>

\* decode(encode(m)), interactions protocol.
DecodeEncodedInteractions ==
    /\ pc = "encoded interactions"
    /\ Get(payload).ok
    /\ \E resp \in {Interaction(Some(EncodedItems(Get(payload))))} :
           /\ response' = resp
           /\ generation' = Some(convertInteractionToChatGeneration(resp))
    /\ pc' = "round trip interactions"
    /\ UNCHANGED <<messages, payload, pending, finalChunk, uuids, instance,
                   history, request,
                   asked, yielded, callbacks,
                   constructedWith, calledWith, heap>>

DecodeWire ==
    /\ pc = "wire"
    /\ generation' = Some(convertGoogleResponseToChatGeneration(response, uuids))
    /\ uuids' = generation'[1].uuids
    /\ pc' = "wire decoded"
    /\ UNCHANGED <<messages, payload, response, pending, finalChunk, instance,
                   history, request,
                   asked, yielded, callbacks,
                   constructedWith, calledWith, heap>>

\* encode(decode(r)): the decoded AI message is the history of the next call.
EncodeDecoded ==
    /\ pc = "wire decoded"
    /\ Get(generation).ok
    /\ messages' = <<Get(generation).message>>
    /\ payload' = Some(convertMessagesToGooglePayload(messages'))
    /\ pc' = "re-encoded"
    /\ UNCHANGED <<response, pending, finalChunk, generation, uuids, instance,
                   history, request,
                   asked, yielded, callbacks,
                   constructedWith, calledWith, heap>>

NextContent ==
    \/ EncodeMessageStandard
    \/ EncodeMessageInteractions
    \/ DecodeEncodedStandard
    \/ DecodeEncodedInteractions
    \/ DecodeWire
    \/ EncodeDecoded

SpecContent == InitContent /\ [][NextContent]_vars

-----------------------------------------------------------------------------
(* Properties of the passes through an encoder and a decoder.              *)

\* What a wire part carries for the decoder: text, reasoning, a function
\* call, or nothing of these.
PartKind(part) ==
    IF Truthy(part.text) THEN (IF part.thought THEN "reasoning" ELSE "text")
    ELSE IF IsSome(part.functionCall) THEN "function call"
    ELSE ""

KindsOf(parts) ==
    SelectSeq([i \in 1..Len(parts) |-> PartKind(parts[i])], LAMBDA k : k # "")

\* A sequence of kinds with every run of one kind reduced to one element:
\* the relative order of the kinds, whatever the number of parts of a run.
RECURSIVE RelativeOrder(_)
RelativeOrder(kinds) ==
    IF Len(kinds) <= 1 THEN kinds
    ELSE IF kinds[1] = kinds[2] THEN RelativeOrder(Tail(kinds))
    ELSE <<kinds[1]>> \o RelativeOrder(Tail(kinds))

WireParts(resp) == IF IsSome(PartsOf(resp)) THEN Get(PartsOf(resp)) ELSE <<>>

\* C12: a standard response decoded and the decoded AI message encoded again
\* gives wire parts in the relative order of the parts of the response: text,
\* reasoning and function-call parts keep their positions relative to each
\* other, also when a function-call part precedes a text part.
C12_PartOrderPreserved ==
    pc = "re-encoded" /\ Get(payload).ok =>
        RelativeOrder(KindsOf(EncodedParts(Get(payload))))
            = RelativeOrder(KindsOf(WireParts(response)))

\* The message that was encoded.
Original == messages[1]

IsTextBlock(b) == b.type = "text" /\ IsSome(b.text)
IsReasoningBlock(b) == b.type = "reasoning" /\ IsSome(b.reasoning)

\* The text and reasoning blocks of a block list, as <<type, text>> pairs.
TypedTexts(blocks) ==
    LET kept == SelectSeq(blocks, LAMBDA b : IsTextBlock(b) \/ IsReasoningBlock(b))
    IN  [i \in 1..Len(kept) |->
            <<kept[i].type,
              IF kept[i].type = "reasoning" THEN Get(kept[i].reasoning)
              ELSE Get(kept[i].text)>>]

NonEmpty(typed) == SelectSeq(typed, LAMBDA t : t[2] # "")

\* The flattened answer text: the texts of the text blocks, concatenated.
AnswerText(typed) ==
    Join([i \in 1..Len(SelectSeq(typed, LAMBDA t : t[1] = "text")) |->
              SelectSeq(typed, LAMBDA t : t[1] = "text")[i][2]], "")

HasBothKinds(content) ==
    /\ content.kind = "array"
    /\ \E i \in 1..Len(content.blocks) : IsReasoningBlock(content.blocks[i])
    /\ \E i \in 1..Len(content.blocks) : IsTextBlock(content.blocks[i])

\* C13 as stated: a message with reasoning and text blocks, encoded and
\* decoded in the standard protocol, has as content the block sequence with
\* every reasoning block and every text block of the original, same texts,
\* same order, and its answer text holds no reasoning text.
C13_ReasoningPreserved ==
    pc = "round trip standard" /\ HasBothKinds(Original.content) =>
        /\ Decoded.ok
        /\ Decoded.message.content.kind = "array"
        /\ TypedTexts(Decoded.message.content.blocks)
               = TypedTexts(Original.content.blocks)
        /\ Decoded.text = AnswerText(TypedTexts(Original.content.blocks))

\* C13: the same for the blocks whose text is not empty; a block with the
\* empty text is dropped by the decoder, and when no reasoning block with text
\* is left the content is the plain string of the answer text.
C13_NonEmptyReasoningPreserved ==
    pc = "round trip standard" /\ HasBothKinds(Original.content) =>
        LET kept == NonEmpty(TypedTexts(Original.content.blocks))
            content == Decoded.message.content
        IN  /\ Decoded.ok
            /\ Decoded.text = AnswerText(kept)
            /\ IF \E i \in 1..Len(kept) : kept[i][1] = "reasoning"
               THEN content.kind = "array" /\ TypedTexts(content.blocks) = kept
               ELSE content = StringContent(AnswerText(kept))

\* Text, reasoning, text went through the standard protocol and came back as
\* the same three blocks.
C13_Witness ==
    /\ pc = "round trip standard"
    /\ Original.content = ArrayContent(<<TextBlock("a"), ReasoningBlock("r"),
                                         TextBlock("b")>>)
    /\ Decoded.message.content.blocks = Original.content.blocks
    /\ Decoded.text = "ab"

OnlyText(content) ==
    \/ content.kind = "string"
    \/ /\ content.kind = "array"
       /\ \A i \in 1..Len(content.blocks) : IsTextBlock(content.blocks[i])

FlattenedText(content) ==
    IF content.kind = "string" THEN content.text
    ELSE AnswerText(TypedTexts(content.blocks))

PartOfBlock(part, b) ==
    IF b.type = "text" THEN part.text = b.text /\ ~part.thought
    ELSE IF b.type = "reasoning" THEN part.text = b.reasoning /\ part.thought
    ELSE b.type = "image_url" /\ (IsSome(part.inlineData) \/ IsSome(part.fileData))

\* The wire item is what the interactions protocol has for the block.
ItemOfBlock(item, b) ==
    IF b.type = "text" THEN item.type = "text"
    ELSE IF b.type = "reasoning" THEN item.type = "thought"
    ELSE b.type = "image_url" /\ item.type = "image"

\* The error an encoder may throw for one of the blocks: unsupported blocks
\* are named by their type, image blocks may also have an invalid URL.
BlockErrors(blocks) ==
    { "Unsupported content block type: " \o blocks[i].type : i \in 1..Len(blocks) }
    \cup (IF \E i \in 1..Len(blocks) : blocks[i].type = "image_url"
          THEN {"Invalid base64 image data URL", "Invalid image_url format",
                "Invalid data URL format"}
          ELSE {})

\* The items in front of the content items of a turn: the thought item.
ItemsBefore(m) == IF HasThought_Signature(m) THEN 1 ELSE 0

\* C15: in both encoders every content block of the message either gives
\* exactly one wire part / item at its position (a reasoning block a
\* thought-marked one) or the encode fails with an error for that block; no
\* block is left out of a payload that is returned.
C15_NoBlockOmitted ==
    /\ pc = "encoded standard" /\ Original.content.kind = "array" =>
           LET blocks == Original.content.blocks
               parts == EncodedParts(Get(payload))
           IN  IF Get(payload).ok
               THEN /\ Len(parts) = Len(blocks) + Len(Original.tool_calls)
                    /\ \A i \in 1..Len(blocks) : PartOfBlock(parts[i], blocks[i])
               ELSE Get(payload).error \in BlockErrors(blocks)
    /\ pc = "encoded interactions" /\ Original.content.kind = "array" =>
           LET blocks == Original.content.blocks
               items == EncodedItems(Get(payload))
           IN  IF Get(payload).ok
               THEN /\ Len(items) = ItemsBefore(Original) + Len(blocks)
                                      + Len(Original.tool_calls)
                    /\ \A i \in 1..Len(blocks) :
                           ItemOfBlock(items[ItemsBefore(Original) + i], blocks[i])
               ELSE Get(payload).error \in BlockErrors(blocks)

\* data:<mime>;base64,<payload>
WellFormedDataUrl(url) ==
    Len(url) = 4 /\ url[1] = "data:" /\ url[3] = ";base64,"
    /\ url[2] # "" /\ url[4] # ""

ExternalUrl(url) == Len(url) > 0 /\ url[1] \in {"https://", "gs://"}

IsImageBlock(b) == b.type = "image_url" /\ IsSome(b.image_url)

\* The position, among the items of the turn, of the item of block i.
ItemIndex(m, i) ==
    ItemsBefore(m)
    + Cardinality({j \in 1..i : m.content.blocks[j].type \in {"text", "image_url"}})

-----------------------------------------------------------------------------
(* Properties of the encoders on message lists (continued).                *)

\* The message has an image block whose URL starts with 'data:' and is not
\* data:<mime>;base64,<payload>.
HasMalformedImage(m) ==
    /\ m.content.kind = "array"
    /\ \E i \in 1..Len(m.content.blocks) :
           /\ IsImageBlock(m.content.blocks[i])
           /\ startsWith(Get(m.content.blocks[i].image_url), "data:")
           /\ ~WellFormedDataUrl(Get(m.content.blocks[i].image_url))

\* The messages whose content blocks the interactions encoder formats.
FormatsContent(m) == IsHuman(m) \/ IsAI(m) \/ IsChat(m)

-----------------------------------------------------------------------------
(* The encoders applied to message lists with system messages.             *)

SystemScenarioMessages ==
    { HumanMessage(StringContent("a")),
      AIMessage(StringContent("b"), <<>>, NoMetadata),
      SystemMessage(StringContent("s")),
      SystemMessage(StringContent("")),
      SystemMessage(ArrayContent(<<TextBlock("s1"), TextBlock("s2")>>)),
      SystemMessage(ArrayContent(<<TextBlock("")>>)) }

InitSystem ==
    /\ pc = "start"
    /\ messages \in UNION {[1..n -> SystemScenarioMessages] : n \in 0..MaxMessages}
    /\ payload = None
    /\ Idle

SpecSystem == InitSystem /\ [][NextEncode]_vars

\* The texts of a message: its string, or the texts of its text blocks.
MessageTexts(m) ==
    IF m.content.kind = "string" THEN <<m.content.text>>
    ELSE LET texts == SelectSeq(m.content.blocks, IsTextBlock)
         IN  [i \in 1..Len(texts) |-> Get(texts[i].text)]

SystemMessagesOf(msgs) == SelectSeq(msgs, IsSystem)

\* The texts of all system messages, in message order.
SystemTexts(msgs) ==
    Flatten([i \in 1..Len(SystemMessagesOf(msgs)) |->
                 MessageTexts(SystemMessagesOf(msgs)[i])])

NonEmptyTexts(texts) == SelectSeq(texts, LAMBDA t : t # "")

\* The texts of the system messages, each message's texts joined by a
\* newline, without the messages that have no text.
SystemLines(msgs) ==
    NonEmptyTexts([i \in 1..Len(SystemMessagesOf(msgs)) |->
                       Join(MessageTexts(SystemMessagesOf(msgs)[i]), "\n")])

InstructionTexts(systemInstruction) ==
    IF IsSome(systemInstruction)
    THEN [i \in 1..Len(Get(systemInstruction).parts) |->
              Get(Get(systemInstruction).parts[i].text)]
    ELSE <<>>

\* What both encoders do with system messages whatever the instruction is
\* absent for: no wire entry wherever the system messages stand, and every
\* text of every system message in the instruction, in message order.
SystemMessagesExtracted ==
    /\ StandardReturned =>
           /\ Get(payload).contents
                  = convertMessagesToGooglePayload(ChatMessagesOf(messages)).contents
           /\ \A k \in 1..Len(Get(payload).contents) :
                  Get(payload).contents[k].role \in {"user", "model"}
           /\ NonEmptyTexts(InstructionTexts(Get(payload).systemInstruction))
                  = NonEmptyTexts(SystemTexts(messages))
    /\ InteractionsReturned =>
           /\ Get(payload).input
                  = convertMessagesToGoogleInteractionPayload(
                        ChatMessagesOf(messages)).input
           /\ TurnPerMessage
           /\ Get(payload).system_instruction =
                  IF SystemLines(messages) = <<>> THEN None
                  ELSE Some(Join(SystemLines(messages), "\n"))

GivesNoPart(m) ==
    IF m.content.kind = "string" THEN m.content.text = ""
    ELSE m.content.blocks = <<>>

-----------------------------------------------------------------------------
(* Message roles.                                                          *)

\* A generic message whose role string is none of the roles with a wire role.
HasUnmappedRole(m) == IsChat(m) /\ m.role \notin {"user", "assistant", "model"}

\* C19: in both encoders every emitted entry has role 'user' or 'model', and
\* a message whose role has no mapping onto these makes the encode fail with
\* an unsupported-message-type error; it is emitted neither under its own
\* role nor under another one.
C19_RolesMapped ==
    /\ pc = "standard" =>
           /\ Get(payload).ok =>
                  \A k \in 1..Len(Get(payload).contents) :
                      Get(payload).contents[k].role \in {"user", "model"}
           /\ (\E i \in 1..Len(messages) : HasUnmappedRole(messages[i]))
                  => ~Get(payload).ok
    /\ pc = "interactions" =>
           /\ Get(payload).ok =>
                  \A k \in 1..Len(Get(payload).input) :
                      Get(payload).input[k].role \in {"user", "model"}
           /\ (\E i \in 1..Len(messages) : HasUnmappedRole(messages[i]))
                  => ~Get(payload).ok

-----------------------------------------------------------------------------
(* Tool lists: formatTools and formatInteractionTools.  A tool entry is a  *)
(* record of the keys the two functions probe; functionDeclarations and    *)
(* type are optional keys, googleSearch and codeExecution are present or   *)
(* not, lc_namespace is what isStructuredTool looks for.                   *)

NoTool == [functionDeclarations |-> None, googleSearch |-> FALSE,
           codeExecution |-> FALSE, type |-> None, lc_namespace |-> FALSE,
           name |-> None, description |-> None, schema |-> None,
           parameters |-> None]

FunctionDeclaration(name, description, parameters) ==
    [name |-> name, description |-> description, parameters |-> parameters]

\* A schema is <<"zod", shape>> or <<"json", shape>>.
isInteropZodSchema(schema) == IsSome(schema) /\ Get(schema)[1] = "zod"

toJsonSchema(schema) == Some(<<"json", Get(schema)[2]>>)

\* isInteropZodSchema(lcTool.schema) ? toJsonSchema(lcTool.schema) : lcTool.schema
SchemaOf(lcTool) ==
    IF isInteropZodSchema(lcTool.schema) THEN toJsonSchema(lcTool.schema)
    ELSE lcTool.schema

isStructuredTool(tool) == tool.lc_namespace

\* 'functionDeclarations' in tool || 'googleSearch' in tool || 'codeExecution' in tool
IsStandardTool(tool) ==
    IsSome(tool.functionDeclarations) \/ tool.googleSearch \/ tool.codeExecution

\* A declaration that does not carry the name of the tool.
NamelessDeclaration(lcTool) ==
    FunctionDeclaration(None, lcTool.description, SchemaOf(lcTool))

\* functionDeclarations.push({ name, description, parameters: schema })
DeclarationOf(lcTool) ==
    FunctionDeclaration(lcTool.name, lcTool.description, SchemaOf(lcTool))

\* for (const tool of toolList) of formatTools, and what follows the loop.
RECURSIVE FormatToolsLoop(_, _, _, _)
FormatToolsLoop(toolList, i, functionDeclarations, googleTools) ==
    IF i > Len(toolList)
    THEN (IF Len(functionDeclarations) > 0
          THEN Append(googleTools,
                      [NoTool EXCEPT !.functionDeclarations = Some(functionDeclarations)])
          ELSE googleTools)
    ELSE IF IsStandardTool(toolList[i])
    THEN FormatToolsLoop(toolList, i + 1, functionDeclarations,
                         Append(googleTools, toolList[i]))
    ELSE IF isStructuredTool(toolList[i])
    THEN FormatToolsLoop(toolList, i + 1,
                         Append(functionDeclarations, DeclarationOf(toolList[i])),
                         googleTools)
    ELSE FormatToolsLoop(toolList, i + 1, functionDeclarations, googleTools)

\* googleTools.length > 0 ? googleTools : undefined
ToolsOrUndefined(googleTools) ==
    IF Len(googleTools) > 0 THEN Some(googleTools) ELSE None

\* Array.isArray(tools) ? tools : [tools] -- the model keeps the list and
\* whether it was an array.
formatTools(tools) ==
    IF ~IsSome(tools) THEN None
    ELSE IF Len(Get(tools).list) = 0 THEN None
    ELSE ToolsOrUndefined(FormatToolsLoop(Get(tools).list, 1, <<>>, <<>>))

\* 'type' in tool && (type is function, google_search or code_execution)
IsInteractionTool(tool) ==
    IsSome(tool.type)
    /\ Get(tool.type) \in {"function", "google_search", "code_execution"}

\* { type: 'function', name, description, parameters }
FunctionTool(name, description, parameters) ==
    [NoTool EXCEPT !.type = Some("function"), !.name = name,
                   !.description = description, !.parameters = parameters]

\* The tools pushed for a standard tool: its declarations, then the markers.
ConvertedStandardTool(tool) ==
    [k \in 1..Len(Get(tool.functionDeclarations)) |->
         FunctionTool(Get(tool.functionDeclarations)[k].name,
                      Get(tool.functionDeclarations)[k].description,
                      Get(tool.functionDeclarations)[k].parameters)]
    \o (IF tool.googleSearch
        THEN <<[NoTool EXCEPT !.type = Some("google_search")]>> ELSE <<>>)
    \o (IF tool.codeExecution
        THEN <<[NoTool EXCEPT !.type = Some("code_execution")]>> ELSE <<>>)

\* for (const tool of toolList) of formatInteractionTools.
RECURSIVE FormatInteractionToolsLoop(_, _, _)
FormatInteractionToolsLoop(toolList, i, googleTools) ==
    IF i > Len(toolList) THEN googleTools
    ELSE IF IsInteractionTool(toolList[i])
    THEN FormatInteractionToolsLoop(toolList, i + 1, Append(googleTools, toolList[i]))
    ELSE IF IsSome(toolList[i].functionDeclarations)
    THEN FormatInteractionToolsLoop(toolList, i + 1,
             googleTools \o ConvertedStandardTool(toolList[i]))
    ELSE IF isStructuredTool(toolList[i])
    THEN FormatInteractionToolsLoop(toolList, i + 1,
             Append(googleTools,
                    FunctionTool(toolList[i].name, toolList[i].description,
                                 SchemaOf(toolList[i]))))
    ELSE FormatInteractionToolsLoop(toolList, i + 1, googleTools)

formatInteractionTools(tools) ==
    IF ~IsSome(tools) THEN None
    ELSE IF Len(Get(tools).list) = 0 THEN None
    ELSE ToolsOrUndefined(FormatInteractionToolsLoop(Get(tools).list, 1, <<>>))

-----------------------------------------------------------------------------
(* The tool formatters applied to bounded tool lists.                      *)

MaxTools == 3

DeclF == FunctionDeclaration(Some("f"), Some("does f"), Some(<<"json", "F">>))
DeclG == FunctionDeclaration(Some("g"), None, None)

ToolEntries ==
    { [NoTool EXCEPT !.functionDeclarations = Some(<<DeclF, DeclG>>)],
      [NoTool EXCEPT !.googleSearch = TRUE],
      [NoTool EXCEPT !.functionDeclarations = Some(<<DeclF>>),
                     !.googleSearch = TRUE, !.codeExecution = TRUE],
      FunctionTool(Some("f"), Some("does f"), Some(<<"json", "F">>)),
      [NoTool EXCEPT !.type = Some("google_search")],
      [NoTool EXCEPT !.lc_namespace = TRUE, !.name = Some("h"),
                     !.description = Some("does h"), !.schema = Some(<<"zod", "H">>)],
      [NoTool EXCEPT !.lc_namespace = TRUE, !.name = Some("k"),
                     !.description = Some("does k"), !.schema = Some(<<"json", "K">>)],
      [NoTool EXCEPT !.type = Some("url_context")],
      [NoTool EXCEPT !.name = Some("p"), !.description = Some("does p")] }

\* options.tools: undefined, one tool, or an array of tools.
ToolOptions ==
    { None }
    \cup { Some([array |-> FALSE, list |-> <<tool>>]) : tool \in ToolEntries }
    \cup { Some([array |-> TRUE, list |-> list]) :
               list \in UNION {[1..n -> ToolEntries] : n \in 0..MaxTools} }

InitTools ==
    /\ pc = "options"
    /\ \E tools \in ToolOptions :
           request = Some([protocol |-> "", options |-> [tools |-> tools],
                           tools |-> None])
    /\ messages = <<>> /\ payload = None
    /\ response = None /\ pending = <<>> /\ finalChunk = None
    /\ generation = None /\ uuids = 0
    /\ instance = None /\ history = <<>>
    /\ NoStreamRun

\* const tools = this.formatTools(options.tools)
BuildStandardTools ==
    /\ pc = "options"
    /\ request' = Some([Get(request) EXCEPT
                            !.protocol = "standard",
                            !.tools = formatTools(Get(request).options.tools)])
    /\ pc' = "standard tools"
    /\ UNCHANGED <<messages, payload, response, pending, finalChunk, generation,
                   uuids, instance, history,
                   asked, yielded, callbacks,
                   constructedWith, calledWith, heap>>

\* tools: this.formatInteractionTools(options.tools)
BuildInteractionTools ==
    /\ pc = "options"
    /\ request' = Some([Get(request) EXCEPT
                            !.protocol = "interactions",
                            !.tools = formatInteractionTools(Get(request).options.tools)])
    /\ pc' = "interaction tools"
    /\ UNCHANGED <<messages, payload, response, pending, finalChunk, generation,
                   uuids, instance, history,
                   asked, yielded, callbacks,
                   constructedWith, calledWith, heap>>

NextTools == BuildStandardTools \/ BuildInteractionTools

SpecTools == InitTools /\ [][NextTools]_vars

\* The tool entries of the call, and the tools put into the request.
ToolList ==
    IF IsSome(Get(request).options.tools) THEN Get(Get(request).options.tools).list
    ELSE <<>>

FormattedTools == IF IsSome(Get(request).tools) THEN Get(Get(request).tools) ELSE <<>>

\* The JSON Schema of a declared schema.
JsonSchemaOf(tool) == Some(<<"json", Get(tool.schema)[2]>>)

\* The declarations of the declared-schema tools of the list, in order.
DeclaredFunctions(list) ==
    LET declared == SelectSeq(list, LAMBDA t : ~IsStandardTool(t) /\ isStructuredTool(t))
    IN  [k \in 1..Len(declared) |->
            FunctionDeclaration(declared[k].name, declared[k].description,
                                JsonSchemaOf(declared[k]))]

\* formatTools: the standard-shaped entries unchanged, one declaration per
\* declared-schema tool (in one functionDeclarations tool), the other
\* entries skipped, undefined when nothing is kept.
StandardToolsFormatted ==
    pc = "standard tools" =>
        /\ FormattedTools =
               SelectSeq(ToolList, IsStandardTool)
               \o (IF DeclaredFunctions(ToolList) # <<>>
                   THEN <<[NoTool EXCEPT !.functionDeclarations =
                               Some(DeclaredFunctions(ToolList))]>>
                   ELSE <<>>)
        /\ Get(request).tools = None <=> FormattedTools = <<>>

\* What an entry gives formatInteractionTools when a standard-shaped tool
\* counts as an entry that is skipped.
InteractionToolsOfEntry(tool) ==
    IF IsInteractionTool(tool) THEN <<tool>>
    ELSE IF isStructuredTool(tool)
    THEN <<FunctionTool(tool.name, tool.description, JsonSchemaOf(tool))>>
    ELSE <<>>

\* The same, a standard tool with functionDeclarations giving one function
\* tool per declaration and a tool for each of its other markers.
InteractionToolsOfConvertedEntry(tool) ==
    IF IsInteractionTool(tool) THEN <<tool>>
    ELSE IF IsSome(tool.functionDeclarations) THEN ConvertedStandardTool(tool)
    ELSE IF isStructuredTool(tool)
    THEN <<FunctionTool(tool.name, tool.description, JsonSchemaOf(tool))>>
    ELSE <<>>

\* C20 as stated: in both formatters an entry in the target protocol's shape
\* is in the output unchanged, a declared-schema tool gives one function
\* declaration with its name, description and parameters, every other entry
\* is skipped without error, and the result is undefined when none is kept.
C20_ToolsFormatted ==
    /\ StandardToolsFormatted
    /\ pc = "interaction tools" =>
           /\ FormattedTools =
                  Flatten([i \in 1..Len(ToolList) |->
                               InteractionToolsOfEntry(ToolList[i])])
           /\ Get(request).tools = None <=> FormattedTools = <<>>

\* C20: the same, formatInteractionTools converting (not skipping) a
\* standard-protocol tool that has functionDeclarations.
C20_ToolsFormattedOrConverted ==
    /\ StandardToolsFormatted
    /\ pc = "interaction tools" =>
           /\ FormattedTools =
                  Flatten([i \in 1..Len(ToolList) |->
                               InteractionToolsOfConvertedEntry(ToolList[i])])
           /\ Get(request).tools = None <=> FormattedTools = <<>>

\* An unknown entry between a pass-through tool and a declared-schema tool:
\* the first is kept as it is, the second skipped, the third declared.
C20_Witness ==
    /\ pc = "standard tools"
    /\ Len(ToolList) = 3
    /\ ToolList[1] = [NoTool EXCEPT !.googleSearch = TRUE]
    /\ ToolList[2] = [NoTool EXCEPT !.type = Some("url_context")]
    /\ ToolList[3].name = Some("h")
    /\ FormattedTools =
           <<ToolList[1],
             [NoTool EXCEPT !.functionDeclarations =
                 Some(<<FunctionDeclaration(Some("h"), Some("does h"),
                                            Some(<<"json", "H">>))>>)]>>

-----------------------------------------------------------------------------
(* Tool choice: formatToolConfig and formatInteractionToolConfig.  A       *)
(* tool_choice string is the tuple of its letters, so that toUpperCase is  *)
(* computed; a choice object is a record of the keys the code probes.      *)

UpperCase ==
    [a |-> "A", b |-> "B", c |-> "C", d |-> "D", e |-> "E", f |-> "F",
     g |-> "G", h |-> "H", i |-> "I", j |-> "J", k |-> "K", l |-> "L",
     m |-> "M", n |-> "N", o |-> "O", p |-> "P", q |-> "Q", r |-> "R",
     s |-> "S", t |-> "T", u |-> "U", v |-> "V", w |-> "W", x |-> "X",
     y |-> "Y", z |-> "Z"]

\* String.prototype.toUpperCase
toUpperCase(str) ==
    [k \in 1..Len(str) |->
         IF str[k] \in DOMAIN UpperCase THEN UpperCase[str[k]] ELSE str[k]]

NoChoice == [functionCallingConfig |-> None, mode |-> None, allowed_tools |-> None]

\* A tool_choice value: a string (its letters) or an object.
StringChoice(letters) == [type |-> "string", letters |-> letters, object |-> NoChoice]
ObjectChoice(obj) == [type |-> "object", letters |-> <<>>, object |-> obj]

\* typeof options.tool_choice, for a tool_choice that is truthy.
IsStringChoice(choice) ==
    IsSome(choice) /\ Get(choice).type = "string" /\ Get(choice).letters # <<>>
IsObjectChoice(choice) == IsSome(choice) /\ Get(choice).type = "object"

\* { functionCallingConfig: config }
FunctionCallingConfig(config) == [NoChoice EXCEPT !.functionCallingConfig = Some(config)]

\* { mode }
ModeOnly(mode) == [NoChoice EXCEPT !.mode = Some(mode)]

\* { allowed_tools: { mode } }
AllowedTools(mode) == [NoChoice EXCEPT !.allowed_tools = Some(ModeOnly(mode))]

\* modeMap of formatToolConfig: FunctionCallingConfigMode by upper-case name.
StandardModeMap ==
    (<<"A", "U", "T", "O">> :> "AUTO") @@ (<<"A", "N", "Y">> :> "ANY")
    @@ (<<"N", "O", "N", "E">> :> "NONE")

\* modeMap of formatInteractionToolConfig.
InteractionModeMap ==
    (<<"A", "U", "T", "O">> :> "auto") @@ (<<"A", "N", "Y">> :> "any")
    @@ (<<"N", "O", "N", "E">> :> "none")

\* return { functionCallingConfig: toolChoiceObj }
WrappedChoice(toolChoiceObj) == FunctionCallingConfig(toolChoiceObj)

\* The tool_choice branch of formatToolConfig.
StandardToolChoice(choice) ==
    IF IsStringChoice(choice)
    THEN (IF toUpperCase(Get(choice).letters) \in DOMAIN StandardModeMap
          THEN Some(FunctionCallingConfig(
                   ModeOnly(StandardModeMap[toUpperCase(Get(choice).letters)])))
          ELSE None)
    ELSE IF IsObjectChoice(choice)
            /\ (IsSome(Get(choice).object.functionCallingConfig)
                \/ IsSome(Get(choice).object.mode))
    THEN Some(WrappedChoice(Get(choice).object))
    ELSE None

formatToolConfig(options) ==
    IF IsSome(options.toolConfig) THEN options.toolConfig
    ELSE StandardToolChoice(options.tool_choice)

\* mode === AUTO ? 'auto' : mode === ANY ? 'any' : 'none'
ModeString(mode) ==
    IF mode = Some("AUTO") THEN "auto" ELSE IF mode = Some("ANY") THEN "any"
    ELSE "none"

\* Map toolConfig to Interactions tool choice if possible.
ToolChoiceOfToolConfig(toolConfig) ==
    IF IsSome(toolConfig) /\ IsSome(Get(toolConfig).functionCallingConfig)
    THEN Some(AllowedTools(ModeString(Get(Get(toolConfig).functionCallingConfig).mode)))
    ELSE None

formatInteractionToolConfig(options) ==
    IF IsStringChoice(options.tool_choice)
       /\ toUpperCase(Get(options.tool_choice).letters) \in DOMAIN InteractionModeMap
    THEN Some(AllowedTools(
             InteractionModeMap[toUpperCase(Get(options.tool_choice).letters)]))
    ELSE IF IsObjectChoice(options.tool_choice)
    THEN Some(Get(options.tool_choice).object)
    ELSE ToolChoiceOfToolConfig(options.toolConfig)

-----------------------------------------------------------------------------
(* The tool-choice formatters applied to call options.                     *)

ChoiceStrings ==
    { <<"a", "u", "t", "o">>, <<"A", "U", "T", "O">>, <<"A", "u", "T", "o">>,
      <<"a", "n", "y">>, <<"A", "n", "y">>,
      <<"n", "o", "n", "e">>, <<"N", "O", "N", "E">>,
      <<"r", "e", "q", "u", "i", "r", "e", "d">>, <<"f">>, <<>> }

ChoiceObjects ==
    { FunctionCallingConfig(ModeOnly("ANY")), FunctionCallingConfig(ModeOnly("NONE")),
      ModeOnly("ANY"), AllowedTools("any"), AllowedTools("auto"), NoChoice }

ToolChoices ==
    { None } \cup { Some(StringChoice(str)) : str \in ChoiceStrings }
             \cup { Some(ObjectChoice(obj)) : obj \in ChoiceObjects }

ToolConfigs ==
    { None, Some(FunctionCallingConfig(ModeOnly("AUTO"))),
      Some(FunctionCallingConfig(ModeOnly("ANY"))),
      Some(FunctionCallingConfig(ModeOnly("NONE"))),
      Some(FunctionCallingConfig(ModeOnly("VALIDATED"))), Some(NoChoice) }

InitToolChoice ==
    /\ pc = "options"
    /\ \E choice \in ToolChoices, config \in ToolConfigs :
           request = Some([protocol |-> "",
                           options |-> [tool_choice |-> choice, toolConfig |-> config],
                           toolConfig |-> None, tool_choice |-> None])
    /\ messages = <<>> /\ payload = None
    /\ response = None /\ pending = <<>> /\ finalChunk = None
    /\ generation = None /\ uuids = 0
    /\ instance = None /\ history = <<>>
    /\ NoStreamRun

\* const toolConfig = this.formatToolConfig(options)
BuildToolConfig ==
    /\ pc = "options"
    /\ request' = Some([Get(request) EXCEPT
                            !.protocol = "standard",
                            !.toolConfig = formatToolConfig(Get(request).options)])
    /\ pc' = "standard tool config"
    /\ UNCHANGED <<messages, payload, response, pending, finalChunk, generation,
                   uuids, instance, history,
                   asked, yielded, callbacks,
                   constructedWith, calledWith, heap>>

\* const tool_choice = this.formatInteractionToolConfig(options)
BuildInteractionToolChoice ==
    /\ pc = "options"
    /\ request' = Some([Get(request) EXCEPT
                            !.protocol = "interactions",
                            !.tool_choice = formatInteractionToolConfig(Get(request).options)])
    /\ pc' = "interaction tool choice"
    /\ UNCHANGED <<messages, payload, response, pending, finalChunk, generation,
                   uuids, instance, history,
                   asked, yielded, callbacks,
                   constructedWith, calledWith, heap>>

NextToolChoice == BuildToolConfig \/ BuildInteractionToolChoice

SpecToolChoice == InitToolChoice /\ [][NextToolChoice]_vars

\* The tool_choice of the call options, and whether it names a mode.
GivenChoice == Get(request).options.tool_choice

NamesMode(choice, name) ==
    /\ IsSome(choice) /\ Get(choice).type = "string"
    /\ toUpperCase(Get(choice).letters) = name

IsModeName(choice) ==
    \E name \in {<<"A", "U", "T", "O">>, <<"A", "N", "Y">>, <<"N", "O", "N", "E">>} :
        NamesMode(choice, name)

\* C21: for call options that carry a tool_choice and no toolConfig, the
\* strings auto, any and none (in any letter case) give the protocol's native
\* choice with that mode, a tool_choice object already in the protocol's
\* native shape (standard: it has functionCallingConfig; interactions: it has
\* allowed_tools) is put into the request unchanged, and any other string
\* gives no tool choice.
C21_ToolChoiceTranslated ==
    IsSome(request) /\ Get(request).options.toolConfig = None =>
        /\ pc = "standard tool config" =>
               /\ NamesMode(GivenChoice, <<"A", "U", "T", "O">>) =>
                      Get(request).toolConfig = Some(FunctionCallingConfig(ModeOnly("AUTO")))
               /\ NamesMode(GivenChoice, <<"A", "N", "Y">>) =>
                      Get(request).toolConfig = Some(FunctionCallingConfig(ModeOnly("ANY")))
               /\ NamesMode(GivenChoice, <<"N", "O", "N", "E">>) =>
                      Get(request).toolConfig = Some(FunctionCallingConfig(ModeOnly("NONE")))
               /\ IsObjectChoice(GivenChoice)
                  /\ IsSome(Get(GivenChoice).object.functionCallingConfig) =>
                      Get(request).toolConfig = Some(Get(GivenChoice).object)
               /\ IsSome(GivenChoice) /\ Get(GivenChoice).type = "string"
                  /\ ~IsModeName(GivenChoice) =>
                      Get(request).toolConfig = None
        /\ pc = "interaction tool choice" =>
               /\ NamesMode(GivenChoice, <<"A", "U", "T", "O">>) =>
                      Get(request).tool_choice = Some(AllowedTools("auto"))
               /\ NamesMode(GivenChoice, <<"A", "N", "Y">>) =>
                      Get(request).tool_choice = Some(AllowedTools("any"))
               /\ NamesMode(GivenChoice, <<"N", "O", "N", "E">>) =>
                      Get(request).tool_choice = Some(AllowedTools("none"))
               /\ IsObjectChoice(GivenChoice)
                  /\ IsSome(Get(GivenChoice).object.allowed_tools) =>
                      Get(request).tool_choice = Some(Get(GivenChoice).object)
               /\ IsSome(GivenChoice) /\ Get(GivenChoice).type = "string"
                  /\ ~IsModeName(GivenChoice) =>
                      Get(request).tool_choice = None

-----------------------------------------------------------------------------
(* Properties of the requests of one instance.                             *)

\* C22: no interactions request that a constructed instance builds, for an
\* agent or for a model, has store = false together with background = true.
C22_StoreBackgroundCompatible ==
    IsSome(request) /\ Get(request).ok /\ Get(request).protocol = "interactions" =>
        ~(Get(request).store = Some(FALSE) /\ Get(request).background = Some(TRUE))

-----------------------------------------------------------------------------
(* One run of _streamResponseChunks, step by step.  The method is an async *)
(* generator: it runs only while the caller waits for a chunk, from the    *)
(* caller's next() up to its next yield or its return.  The caller is the  *)
(* loop of _generate / generateInteractions that folds the chunks, or any  *)
(* other consumer, which may stop before the stream ends.                  *)

MaxDeltas == 3

SignaturePart == [EmptyPart EXCEPT !.thoughtSignature = Some(SigS)]

\* A chunk without candidates that carries the usage counts.
UsageResponse == [GenerateContentResponse(None) EXCEPT !.usageMetadata = Some(7)]

StandardDeltas ==
    { ResponseOfParts(<<TextPart("a")>>),
      ResponseOfParts(<<ThoughtPart>>),
      ResponseOfParts(<<SignaturePart>>),
      ResponseOfParts(<<FunctionCallPart(CallF)>>),
      ResponseOfParts(<<FunctionCallPart(CallG), SignaturePart>>),
      UsageResponse,
      GenerateContentResponse(None),
      [GenerateContentResponse(Some(<<Candidate(None)>>)) EXCEPT
           !.usageMetadata = Some(7)] }

InteractionDeltas ==
    { ContentDelta([NoDelta EXCEPT !.type = "text", !.text = Some("a")]),
      [ContentDelta([NoDelta EXCEPT !.type = "function_call", !.id = "id1",
                                    !.name = "f", !.arguments = "{x:1}"])
       EXCEPT !.index = Some(1)],
      ContentDelta([NoDelta EXCEPT !.type = "thought_signature",
                                   !.signature = Some(SigS)]),
      [ContentDelta([NoDelta EXCEPT !.type = "thought_summary",
                         !.content = Some([type |-> "text", text |-> Some("r")])])
       EXCEPT !.index = Some(0)],
      [NoEvent EXCEPT !.event_type = Some("interaction.complete"),
                      !.interaction = Some([usage |-> Some(7), id |-> "i1"])],
      [NoEvent EXCEPT !.event_type = Some("interaction.complete"),
                      !.interaction = Some([usage |-> None, id |-> "i1"])],
      [NoEvent EXCEPT !.event_type = Some("interaction.start")],
      ContentDelta([NoDelta EXCEPT !.type = "image"]) }

DeltaStreams(deltas) == UNION {[1..n -> deltas] : n \in 0..MaxDeltas}

\* The server stream of a run: its protocol and its deltas in arrival order.
ServerStream(protocol, deltas) == [protocol |-> protocol, deltas |-> deltas]

InitStream ==
    /\ pc = "created"
    /\ \/ \E deltas \in DeltaStreams(StandardDeltas) :
              response = ServerStream("standard", deltas)
       \/ \E deltas \in DeltaStreams(InteractionDeltas) :
              response = ServerStream("interactions", deltas)
    /\ pending = response.deltas
    /\ \E runManager \in BOOLEAN :
           request = Some([protocol |-> response.protocol, runManager |-> runManager])
    /\ NoStreamRun
    /\ finalChunk = None /\ generation = None /\ uuids = 0
    /\ messages = <<>> /\ payload = None /\ instance = None /\ history = <<>>

\* The number of deltas the generator took from the server stream.
Pulled == Len(response.deltas) - Len(pending)

LastYielded == yielded[Len(yielded)]

\* for await (const chunk of stream): the caller asks for the next chunk,
\* which starts the generator or resumes it after its last yield.
Ask ==
    /\ pc \in {"created", "folded"}
    /\ asked' = asked + 1
    /\ pc' = IF pc = "created" THEN "pulling" ELSE "resumed"
    /\ UNCHANGED <<messages, payload, response, pending, finalChunk, generation,
                   uuids, instance, history, request, yielded, callbacks,
                   constructedWith, calledWith, heap>>

\* await runManager?.handleLLMNewToken(text, ..., { chunk }) after the yield.
Callback ==
    /\ pc = "resumed"
    /\ callbacks' = IF Get(request).runManager
                    THEN Append(callbacks, [delta |-> LastYielded.delta,
                                            text |-> LastYielded.chunk.text,
                                            pulled |-> Pulled])
                    ELSE callbacks
    /\ pc' = "pulling"
    /\ UNCHANGED <<messages, payload, response, pending, finalChunk, generation,
                   uuids, instance, history, request, asked, yielded,
                   constructedWith, calledWith, heap>>

\* A generator that takes a second delta from the server stream before it
\* yields the chunk of the first.
YieldAfterPrefetch(chunk) ==
    /\ yielded' = IF IsSome(chunk)
                  THEN Append(yielded, [delta |-> Pulled + 1, chunk |-> Get(chunk)])
                  ELSE yielded
    /\ pc' = IF IsSome(chunk) THEN "yielded" ELSE "pulling"
    /\ pending' = IF Len(pending) > 1 THEN Tail(Tail(pending)) ELSE Tail(pending)

\* if (chunk) yield chunk -- for the converted delta number Pulled + 1.
YieldOrContinue(chunk) ==
    /\ yielded' = IF IsSome(chunk)
                  THEN Append(yielded, [delta |-> Pulled + 1, chunk |-> Get(chunk)])
                  ELSE yielded
    /\ pc' = IF IsSome(chunk) THEN "yielded" ELSE "pulling"
    /\ pending' = Tail(pending)

\* One pass of the loop over the standard stream.
PullStandard ==
    /\ pc = "pulling"
    /\ response.protocol = "standard"
    /\ pending # <<>>
    /\ \E r \in {convertGoogleStreamChunkToLangChainChunk(Head(pending), uuids)} :
           /\ YieldOrContinue(r.chunk)
           /\ uuids' = r.uuids
    /\ UNCHANGED <<messages, payload, response, finalChunk, generation, instance,
                   history, request, asked, callbacks,
                   constructedWith, calledWith, heap>>

\* One pass of the loop over the interactions event stream.
PullInteraction ==
    /\ pc = "pulling"
    /\ response.protocol = "interactions"
    /\ pending # <<>>
    /\ YieldOrContinue(YieldedChunk(
           makeMessageChunkFromGoogleInteractionEvent(Head(pending))))
    /\ UNCHANGED <<messages, payload, response, finalChunk, generation, uuids,
                   instance, history, request, asked, callbacks,
                   constructedWith, calledWith, heap>>

\* The body of the caller's loop: the chunk it received is folded.
Fold ==
    /\ pc = "yielded"
    /\ finalChunk' = FoldChunk(finalChunk, Some(LastYielded.chunk))
    /\ pc' = "folded"
    /\ UNCHANGED <<messages, payload, response, pending, generation, uuids,
                   instance, history, request, asked, yielded, callbacks,
                   constructedWith, calledWith, heap>>

\* A caller other than _generate leaves its loop and asks for nothing more.
Stop ==
    /\ pc = "folded"
    /\ pc' = "stopped"
    /\ UNCHANGED <<messages, payload, response, pending, finalChunk, generation,
                   uuids, instance, history, request, asked, yielded, callbacks,
                   constructedWith, calledWith, heap>>

\* The server stream is exhausted: the generator returns, and the loop of
\* _generate / generateInteractions ends with the folded chunk or an error.
EndOfStream ==
    /\ pc = "pulling"
    /\ pending = <<>>
    /\ generation' = Some(IF response.protocol = "standard"
                          THEN StreamedGeneration(finalChunk, uuids)
                          ELSE [InteractionStreamedGeneration(finalChunk)
                                    EXCEPT !.uuids = uuids])
    /\ pc' = "done"
    /\ UNCHANGED <<messages, payload, response, pending, finalChunk, uuids,
                   instance, history, request, asked, yielded, callbacks,
                   constructedWith, calledWith, heap>>

NextStream ==
    \/ Ask
    \/ Callback
    \/ PullStandard
    \/ PullInteraction
    \/ Fold
    \/ Stop
    \/ EndOfStream

SpecStream == InitStream /\ [][NextStream]_vars

-----------------------------------------------------------------------------
(* Properties of a stream run.                                             *)

\* A part with a signature and neither text nor function call.
SignatureOnlyPart(part) ==
    /\ ~IsSome(part.text) /\ ~IsSome(part.functionCall)
    /\ Truthy(part.thoughtSignature)

\* A delta that carries metadata only: a standard chunk of signature-only
\* parts or without candidate but with usage, an interactions
\* thought_signature delta, or interaction.complete with usage.
MetadataOnly(protocol, delta) ==
    IF protocol = "standard"
    THEN \/ ~IsSome(FirstCandidate(delta)) /\ IsSome(delta.usageMetadata)
         \/ /\ IsSome(PartsOf(delta)) /\ Get(PartsOf(delta)) # <<>>
            /\ \A k \in 1..Len(Get(PartsOf(delta))) :
                   SignatureOnlyPart(Get(PartsOf(delta))[k])
    ELSE \/ /\ delta.event_type = Some("content.delta") /\ IsSome(delta.delta)
            /\ Get(delta.delta).type = "thought_signature"
         \/ /\ delta.event_type = Some("interaction.complete")
            /\ IsSome(delta.interaction) /\ IsSome(Get(delta.interaction).usage)

DeltaOf(entry) == response.deltas[entry.delta]

\* The chunk of a metadata-only delta: empty content, no tool-call chunk.
MetadataChunksEmpty ==
    /\ \A i \in 1..Pulled :
           MetadataOnly(response.protocol, response.deltas[i]) =>
               \E k \in 1..Len(yielded) : yielded[k].delta = i
    /\ \A k \in 1..Len(yielded) :
           MetadataOnly(response.protocol, DeltaOf(yielded[k])) =>
               /\ yielded[k].chunk.message.content = StringContent("")
               /\ yielded[k].chunk.message.tool_call_chunks = <<>>
               /\ yielded[k].chunk.text = ""

Signatures(metadata) == <<metadata.thoughtSignature, metadata.thought_signature>>

\* The fold of the chunk of a metadata-only delta: content, text and tool-call
\* chunks of the accumulator stay, the signature / usage of the chunk is in
\* the accumulator afterwards.
MetadataFoldKeepsContent ==
    pc = "yielded" /\ pc' = "folded"
    /\ MetadataOnly(response.protocol, DeltaOf(LastYielded)) =>
        /\ IsSome(finalChunk')
        /\ Get(finalChunk').message.content =
               (IF IsSome(finalChunk) THEN Get(finalChunk).message.content
                ELSE StringContent(""))
        /\ Get(finalChunk').message.tool_call_chunks =
               (IF IsSome(finalChunk) THEN Get(finalChunk).message.tool_call_chunks
                ELSE <<>>)
        /\ Get(finalChunk').text = (IF IsSome(finalChunk) THEN Get(finalChunk).text ELSE "")
        /\ \A k \in 1..2 :
               IsSome(Signatures(LastYielded.chunk.message.response_metadata)[k]) =>
                   IsSome(Signatures(Get(finalChunk').message.response_metadata)[k])
        /\ IsSome(LastYielded.chunk.message.usage_metadata) =>
               IsSome(Get(finalChunk').message.usage_metadata)

\* C23: a delta that carries metadata only (a signature-only part, a
\* thought_signature delta, a terminal usage event) converts to a chunk with
\* empty content and no tool-call chunk, and folding that chunk leaves the
\* content blocks and tool calls of the accumulator unchanged while its
\* signature / usage is recorded.
C23_MetadataOnlyDeltas ==
    []MetadataChunksEmpty /\ [][MetadataFoldKeepsContent]_vars

\* A signature-only delta was folded into an accumulator that holds a
\* reasoning block and a tool-call chunk.
C23_Witness ==
    /\ pc = "folded"
    /\ Len(yielded) = 3
    /\ MetadataOnly(response.protocol, DeltaOf(LastYielded))
    /\ Get(finalChunk).message.content.kind = "array"
    /\ Get(finalChunk).message.tool_call_chunks # <<>>
    /\ IsSome(Get(finalChunk).message.response_metadata.thoughtSignature)

\* The chunk a delta converts to, whatever the identifiers generated so far.
ConvertsTo(delta, chunk) ==
    IF response.protocol = "standard"
    THEN \E n \in 0..(2 * MaxDeltas) :
             convertGoogleStreamChunkToLangChainChunk(delta, n).chunk = Some(chunk)
    ELSE YieldedChunk(makeMessageChunkFromGoogleInteractionEvent(delta)) = Some(chunk)

\* The chunks come from the deltas, in arrival order and each delta once.
YieldedInOrder ==
    /\ \A k \in 1..Len(yielded) :
           /\ yielded[k].delta \in 1..Pulled
           /\ ConvertsTo(DeltaOf(yielded[k]), yielded[k].chunk)
    /\ \A k \in 1..(Len(yielded) - 1) : yielded[k].delta < yielded[k + 1].delta

\* The generator holds control (the caller waits for a chunk).
GeneratorRuns == pc \in {"resumed", "pulling"}

\* No delta after the one of a yielded chunk is pulled before the caller has
\* asked for the next chunk: while the caller holds control the last delta
\* pulled is the one of the last chunk, and every chunk answered one request.
PullBased ==
    /\ asked = (IF GeneratorRuns THEN Len(yielded) + 1 ELSE Len(yielded))
               + (IF pc = "done" THEN 1 ELSE 0)
    /\ pc = "created" => Pulled = 0
    /\ pc \in {"yielded", "folded", "stopped", "resumed"} =>
           Pulled = LastYielded.delta
    /\ \A k \in 1..Len(yielded) : Pulled > yielded[k].delta => asked > k

\* The callback of a chunk runs after the chunk was yielded and before a
\* later delta is pulled; with no run manager there is no callback.
CallbackAfterYield ==
    IF Get(request).runManager
    THEN /\ Len(callbacks) =
                (IF pc \in {"yielded", "folded", "stopped", "resumed"}
                 THEN Len(yielded) - 1 ELSE Len(yielded))
         /\ \A k \in 1..Len(callbacks) :
                /\ callbacks[k].delta = yielded[k].delta
                /\ callbacks[k].text = yielded[k].chunk.text
                /\ callbacks[k].pulled = yielded[k].delta
    ELSE callbacks = <<>>

\* C24: in a run of _streamResponseChunks of either protocol the chunks are
\* yielded in the order of their deltas and no delta twice; the delta after
\* the one of a chunk is pulled only once the caller has asked for the next
\* chunk; the new-token callback of a chunk runs after its yield and before
\* the next delta is pulled; once the caller stops, nothing more is pulled
\* and no callback runs.
C24_OrderedPullBased ==
    /\ YieldedInOrder
    /\ PullBased
    /\ CallbackAfterYield

\* The caller stopped after the second chunk of a stream that has a third
\* delta: the callback of the first chunk ran, the third delta was not pulled.
C24_Witness ==
    /\ pc = "stopped"
    /\ Get(request).runManager
    /\ Len(yielded) = 2 /\ yielded[1].delta = 1 /\ yielded[2].delta = 2
    /\ callbacks = <<[delta |-> 1, text |-> yielded[1].chunk.text, pulled |-> 1]>>
    /\ Len(pending) = 1

\* C25 as stated: a chunk is yielded after every delta -- whenever the caller
\* holds control or the run is over, as many chunks were yielded as deltas
\* were consumed.
C25_ChunkPerDelta == Len(yielded) = Pulled

\* The deltas that carry content or metadata: a standard chunk whose first
\* candidate has at least one part, or that has no candidate but usage; a
\* content.delta of type text, function_call, thought_signature or
\* thought_summary, or interaction.complete with usage.
CarriesChunk(protocol, delta) ==
    IF protocol = "standard"
    THEN IF IsSome(FirstCandidate(delta))
         THEN IsSome(PartsOf(delta)) /\ Get(PartsOf(delta)) # <<>>
         ELSE IsSome(delta.usageMetadata)
    ELSE \/ /\ delta.event_type = Some("content.delta") /\ IsSome(delta.delta)
            /\ Get(delta.delta).type \in
                   {"text", "function_call", "thought_signature", "thought_summary"}
         \/ /\ delta.event_type = Some("interaction.complete")
            /\ IsSome(delta.interaction) /\ IsSome(Get(delta.interaction).usage)

\* C25: a chunk is yielded for every delta consumed that carries content or
\* metadata and for no other delta: the deltas of the chunks yielded are the
\* consumed deltas that carry a chunk, each once.
C25_ChunkPerConvertedDelta ==
    /\ {yielded[k].delta : k \in 1..Len(yielded)} =
           {i \in 1..Pulled : CarriesChunk(response.protocol, response.deltas[i])}
    /\ Len(yielded) =
           Cardinality({i \in 1..Pulled :
                            CarriesChunk(response.protocol, response.deltas[i])})

\* A stream of three deltas was consumed to its end and the second delta,
\* which carries nothing, gave no chunk.
C25_Witness ==
    /\ pc = "done"
    /\ Pulled = 3
    /\ ~CarriesChunk(response.protocol, response.deltas[2])
    /\ Len(yielded) = 2 /\ yielded[1].delta = 1 /\ yielded[2].delta = 3

-----------------------------------------------------------------------------
(* Tool calls of a standard stream (the fold of SpecDecode).               *)

\* The parts of the response that the chunks delivered so far.
DeliveredParts ==
    SubSeq(Get(PartsOf(response)), 1, Len(Get(PartsOf(response))) - Len(pending))

\* The function calls among parts: the parts convertPartToChunk turns into a
\* tool-call chunk.
FunctionCallsOf(parts) ==
    Map(SelectSeq(parts, LAMBDA part : ~IsSome(part.text) /\ IsSome(part.functionCall)),
        LAMBDA part : Get(part.functionCall))

\* No two of the calls have the same server identifier.
DistinctIds(calls) ==
    \A i, j \in 1..Len(calls) :
        i # j /\ IsSome(calls[i].id) => calls[i].id # calls[j].id

FoldedToolCallChunks ==
    IF IsSome(finalChunk) THEN Get(finalChunk).message.tool_call_chunks ELSE <<>>

\* Each function call delivered has its own tool-call chunk in the fold, with
\* its name and arguments only.
OneChunkPerCall(calls, chunks) ==
    /\ Len(chunks) = Len(calls)
    /\ \A k \in 1..Len(calls) :
           /\ chunks[k].name = calls[k].name
           /\ chunks[k].args = JSONstringify(calls[k].args)

\* C26: in a standard stream the function calls of the response (calls with
\* different identifiers, or without one) receive pairwise different indexes,
\* however the parts are split into chunks, and the fold has one tool-call
\* chunk per function call, none holding the name or arguments of another.
C26_ToolCallIndexesDistinct ==
    /\ pc \in {"streaming", "streamed"}
    /\ response.protocol = "standard"
    /\ DistinctIds(FunctionCallsOf(DeliveredParts))
    => /\ OneChunkPerCall(FunctionCallsOf(DeliveredParts), FoldedToolCallChunks)
       /\ \A i, j \in 1..Len(FoldedToolCallChunks) :
              i # j => FoldedToolCallChunks[i].index # FoldedToolCallChunks[j].index

-----------------------------------------------------------------------------
(* Construction and routing: an instance is constructed from recorded      *)
(* fields, then _generate and _streamResponseChunks are called on it with  *)
(* recorded call options; each call builds the request for its protocol.   *)

RoutingFields ==
    [model : {None, Some(""), Some("gemini-3-pro")},
     agent : {None, Some("deep-research")},
     background : {None, Some(TRUE), Some(FALSE)},
     store : {None, Some(TRUE), Some(FALSE)},
     useExperimentalInteractionsApi : {None, Some(TRUE), Some(FALSE)},
     apiKey : {None, Some(""), Some("key")},
     streaming : {None, Some(TRUE)}]

RoutingOptions ==
    [previousInteractionId : {None, Some(""), Some("i1")},
     background : {None, Some(TRUE), Some(FALSE)}]

\* The standard branch of _streamResponseChunks: generateContentStream.
StreamContentParameters(this, p) ==
    [GenerateContentParameters(this, p) EXCEPT
         !.stream = GenerateContentParameters(this, p).ok]

\* The interactions branch of _streamResponseChunks: create with stream true.
StreamInteractionParameters(this, p, opts) ==
    IF ~p.ok THEN [NoRequest EXCEPT !.error = p.error, !.protocol = "interactions"]
    ELSE IF Truthy(this.agent)
    THEN interactiveAgentInvocationParams(this, p.input, opts, TRUE)
    ELSE interactiveInvocationParams(this, p.input, p.system_instruction, opts, TRUE)

\* The request _streamResponseChunks sends for a message list and options.
StreamRequestOf(this, msgs, opts) ==
    IF shouldUseInteractionsApi(this, opts)
    THEN StreamInteractionParameters(this,
             convertMessagesToGoogleInteractionPayload(msgs), opts)
    ELSE StreamContentParameters(this, convertMessagesToGooglePayload(msgs))

InitRouting ==
    /\ pc = "new"
    /\ instance = None /\ request = None
    /\ messages = <<>> /\ payload = None /\ history = <<>>
    /\ response = None /\ pending = <<>> /\ finalChunk = None
    /\ generation = None /\ uuids = 0
    /\ NoStreamRun

\* new ChatGoogleGenAI(fields), GOOGLE_API_KEY being env.
New ==
    /\ pc = "new"
    /\ \E f \in RoutingFields, env \in Environment :
           /\ constructedWith' = Some([fields |-> f, env |-> env])
           /\ instance' = Some(constructor(f, env))
           /\ pc' = IF constructor(f, env).ok THEN "ready" ELSE "failed"
    /\ UNCHANGED <<messages, payload, response, pending, finalChunk, generation,
                   uuids, history, request, asked, yielded, callbacks,
                   calledWith, heap>>

\* A call of `method` with `opts` that built the request `req`.
Called(method, opts, req) ==
    /\ calledWith' = Some([method |-> method, options |-> opts])
    /\ request' = Some(req)
    /\ messages' = <<HumanMessage(StringContent("q"))>>
    /\ UNCHANGED <<pc, payload, response, pending, finalChunk, generation, uuids,
                   instance, history, asked, yielded, callbacks, constructedWith, heap>>

\* _generate(messages, options) up to the request it sends.
Generate ==
    /\ pc = "ready"
    /\ \E opts \in RoutingOptions :
           Called("_generate", opts,
                  RequestOf(This, <<HumanMessage(StringContent("q"))>>, opts))

\* _streamResponseChunks(messages, options) up to the request it sends.
Stream ==
    /\ pc = "ready"
    /\ \E opts \in RoutingOptions :
           Called("_streamResponseChunks", opts,
                  StreamRequestOf(This, <<HumanMessage(StringContent("q"))>>, opts))

NextRouting == New \/ Generate \/ Stream

SpecRouting == InitRouting /\ [][NextRouting]_vars

-----------------------------------------------------------------------------
(* Properties of construction and routing.                                 *)

GivenFields == Get(constructedWith).fields
LastOptions == Get(calledWith).options
LastRequest == Get(request)

\* The protocol of the call is the interactions protocol exactly when the
\* instance has the flag or the options carry a non-empty
\* previousInteractionId; an interactions request carries the caller's
\* previousInteractionId, a standard request carries none.
Routed ==
    IsSome(calledWith) =>
        /\ LastRequest.protocol \in {"standard", "interactions"}
        /\ LastRequest.protocol = "interactions" <=>
               \/ This.useExperimentalInteractionsApi
               \/ /\ IsSome(LastOptions.previousInteractionId)
                  /\ Get(LastOptions.previousInteractionId) # ""
        /\ IsSome(This.agent) /\ Get(This.agent) # "" =>
               LastRequest.protocol = "interactions"
        /\ LastRequest.ok /\ LastRequest.protocol = "interactions" =>
               LastRequest.previous_interaction_id = LastOptions.previousInteractionId
        /\ LastRequest.protocol = "standard" =>
               LastRequest.previous_interaction_id = None

\* A call leaves the instance as it was constructed.
InstanceKept == IsSome(instance) => instance' = instance

\* C27: every call of _generate and of _streamResponseChunks uses the
\* interactions protocol iff the instance has useExperimentalInteractionsApi
\* or the options carry a non-empty previousInteractionId, an agent instance
\* always does, the previousInteractionId of the options is in the request
\* unchanged, and no call changes the instance (so neither the routing of
\* later calls, nor anything stored).
C27_ProtocolRouting == []Routed /\ [][InstanceKept]_vars

\* An instance without the flag streamed over the interactions protocol
\* because the options carried a previousInteractionId.
C27_Witness ==
    /\ IsSome(calledWith)
    /\ Get(calledWith).method = "_streamResponseChunks"
    /\ ~This.useExperimentalInteractionsApi
    /\ LastOptions.previousInteractionId = Some("i1")
    /\ LastRequest.ok /\ LastRequest.protocol = "interactions"
    /\ LastRequest.previous_interaction_id = Some("i1")

\* The conditions of a valid configuration.
ExactlyOneTarget(f) == Truthy(f.model) # Truthy(f.agent)
KeyAvailable(f, env) == Truthy(f.apiKey) \/ Truthy(env)
StoreAllowsBackground(f) == ~(f.store = Some(FALSE) /\ f.background = Some(TRUE))
AgentAllowsFlag(f) ==
    ~(Truthy(f.agent) /\ f.useExperimentalInteractionsApi = Some(FALSE))

ValidConfiguration(f, env) ==
    /\ ExactlyOneTarget(f)
    /\ KeyAvailable(f, env)
    /\ StoreAllowsBackground(f)
    /\ AgentAllowsFlag(f)

\* C28: construction succeeds only for a configuration with exactly one of
\* model and agent, an API key (field or environment), no store = false with
\* background = true and no agent with useExperimentalInteractionsApi = false;
\* every other configuration raises an error and yields no instance; a
\* constructed instance with an agent has useExperimentalInteractionsApi.
C28_ConstructionValidated ==
    IsSome(instance) =>
        /\ Get(instance).ok => ValidConfiguration(GivenFields, Get(constructedWith).env)
        /\ ~ValidConfiguration(GivenFields, Get(constructedWith).env) =>
               /\ ~Get(instance).ok
               /\ Get(instance).error # ""
               /\ Get(instance).instance = NoInstance
               /\ pc = "failed"
        /\ Get(instance).ok /\ Truthy(This.agent) =>
               This.useExperimentalInteractionsApi

\* An instance was constructed for an agent with the key of the environment.
C28_Witness ==
    /\ pc = "ready"
    /\ Get(instance).ok
    /\ GivenFields.agent = Some("deep-research")
    /\ GivenFields.apiKey = None
    /\ GivenFields.useExperimentalInteractionsApi = None
    /\ This.useExperimentalInteractionsApi
    /\ This.apiKey = Some("env-key")

\* C30: no call on a constructed instance fails because the model or the
\* agent is missing: a standard request and a non-agent interactions request
\* carry the model of the instance, an agent request carries its agent.
C30_RequiredTargetPresent ==
    IsSome(request) =>
        /\ LastRequest.error \notin
               {"This operation requires a model to be specified.",
                "This operation requires an agent to be specified."}
        /\ LastRequest.ok
        /\ IF LastRequest.protocol = "interactions" /\ Truthy(This.agent)
           THEN LastRequest.agent = This.agent /\ LastRequest.model = None
           ELSE /\ Truthy(This.model)
                /\ LastRequest.model = This.model /\ LastRequest.agent = None

\* _generate on an agent instance built a request for the agent.
C30_Witness ==
    /\ IsSome(calledWith)
    /\ Get(calledWith).method = "_generate"
    /\ LastOptions.previousInteractionId = None
    /\ LastRequest.ok /\ LastRequest.protocol = "interactions"
    /\ LastRequest.agent = Some("deep-research")

-----------------------------------------------------------------------------
(* The encoders on a heap. The caller's messages are objects: a message,   *)
(* the array of an array content and each of its blocks have an address;   *)
(* what an encoder creates (parts, items and their arrays) gets the        *)
(* address of a new object, and its writes go to the object at the address *)
(* written to. Addresses are <<kind, call, message, position>>; the        *)
(* caller's objects have call 0.                                           *)

MaxEncodings == 2
MaxHeld == 2

MessageAddress(i) == <<"message", 0, i, 0>>
ContentAddress(i) == <<"content", 0, i, 0>>
BlockAddress(i, j) == <<"block", 0, i, j>>

\* An encoder that takes the message's own block for the object it builds.
SharedBlock(kind, call, i, k) == BlockAddress(i, k)

\* The object literal or array literal, the k-th of its kind, that `call`
\* evaluates while it converts message i.
NewObject(kind, call, i, k) == <<kind, call, i, k>>

MessageAddresses(msgs) ==
    {MessageAddress(i) : i \in 1..Len(msgs)}
    \cup {ContentAddress(i) : i \in {j \in 1..Len(msgs) : msgs[j].content.kind = "array"}}
    \cup UNION {{BlockAddress(i, j) : j \in 1..Len(msgs[i].content.blocks)} :
                    i \in 1..Len(msgs)}

\* The caller's objects for the message list msgs.
HeapOf(msgs) ==
    [a \in MessageAddresses(msgs) |->
        IF a[1] = "message" THEN [msgs[a[3]] EXCEPT !.content.blocks = <<>>]
        ELSE IF a[1] = "content"
        THEN [j \in 1..Len(msgs[a[3]].content.blocks) |-> BlockAddress(a[3], j)]
        ELSE msgs[a[3]].content.blocks[a[4]]]

\* messages[i - 1] as the heap h has it.
MessageAt(h, i) ==
    [h[MessageAddress(i)] EXCEPT !.content.blocks =
        IF ContentAddress(i) \in DOMAIN h
        THEN [j \in 1..Len(h[ContentAddress(i)]) |-> h[h[ContentAddress(i)][j]]]
        ELSE <<>>]

MessagesOf(h, n) == [i \in 1..n |-> MessageAt(h, i)]

\* h with `value` at addr.
Store(h, addr, value) ==
    [a \in DOMAIN h \cup {addr} |-> IF a = addr THEN value ELSE h[a]]

\* h with values[k] at addrs[k].
StoreAll(h, addrs, values) ==
    [a \in DOMAIN h \cup {addrs[k] : k \in 1..Len(addrs)} |->
        IF \E k \in 1..Len(addrs) : addrs[k] = a
        THEN values[CHOOSE k \in 1..Len(addrs) : addrs[k] = a]
        ELSE h[a]]

\* The objects at the addresses of the array at addr.
ElementsAt(h, addr) == [k \in 1..Len(h[addr]) |-> h[h[addr][k]]]

\* The array `kind`s of message i and the addresses of n elements of `kind`.
ArrayOf(kind, call, i) == NewObject(kind \o "s", call, i, 0)
ElementsOf(kind, call, i, n) == [k \in 1..n |-> NewObject(kind, call, i, k)]

\* A new array of new objects with the given values.
NewArray(h, kind, call, i, values) ==
    StoreAll(Store(h, ArrayOf(kind, call, i), ElementsOf(kind, call, i, Len(values))),
             ElementsOf(kind, call, i, Len(values)), values)

\* The state of an encoder between two messages.
EncoderStart(h) ==
    [ok |-> TRUE, error |-> "", heap |-> h, entries |-> <<>>, system |-> <<>>,
     system_instruction |-> None]

EncoderThrew(st, error) == [st EXCEPT !.ok = FALSE, !.error = error]

\* systemMessages.flatMap(msg => convertContentToParts(msg.content)) for
\* the system message i whose content gave c.
SystemPartsOnHeap(st, call, i, c) ==
    IF ~c.ok THEN EncoderThrew(st, c.error)
    ELSE [st EXCEPT !.heap = NewArray(@, "part", call, i, c.parts),
                    !.system = @ \o ElementsOf("part", call, i, Len(c.parts))]

RECURSIVE SystemPassOnHeap(_, _, _, _)

SystemPassOnHeap(st, call, i, n) ==
    IF i > n \/ ~st.ok THEN st
    ELSE IF IsSystem(MessageAt(st.heap, i))
    THEN SystemPassOnHeap(
             SystemPartsOnHeap(st, call, i,
                 convertContentToParts(MessageAt(st.heap, i).content)),
             call, i + 1, n)
    ELSE SystemPassOnHeap(st, call, i + 1, n)

\* parts[parts.length - 1].thoughtSignature = signature, or the dummy part
\* pushed onto the empty parts array.
WriteSignature(h, call, i, signature) ==
    IF Len(h[ArrayOf("part", call, i)]) > 0
    THEN [h EXCEPT ![h[ArrayOf("part", call, i)][Len(h[ArrayOf("part", call, i)])]]
                       .thoughtSignature = Some(signature)]
    ELSE NewArray(h, "part", call, i,
             <<[EmptyPart EXCEPT !.text = Some(""),
                                 !.thoughtSignature = Some(signature)]>>)

SignedOnHeap(h, call, i, message) ==
    IF IsAI(message) /\ IsSome(message.response_metadata.thoughtSignature)
    THEN WriteSignature(h, call, i, Get(message.response_metadata.thoughtSignature))
    ELSE h

\* The parts array of the last entry of contents.
LastParts(st) == st.entries[Len(st.entries)].parts

\* lastContent.parts.push(...parts), or contents.push({ role, parts }).
MergeOnHeap(st, call, i, role) ==
    IF Len(st.entries) > 0 /\ st.entries[Len(st.entries)].role = role
    THEN [st EXCEPT !.heap[LastParts(st)] = @ \o st.heap[ArrayOf("part", call, i)]]
    ELSE [st EXCEPT !.entries =
              Append(@, [role |-> role, parts |-> ArrayOf("part", call, i)])]

\* One pass of the loop over the chat messages, for message i whose content
\* gave c.
StandardPassOnHeap(st, call, i, message, c) ==
    IF ~c.ok THEN EncoderThrew(st, c.error)
    ELSE MergeOnHeap(
             [st EXCEPT !.heap =
                  SignedOnHeap(
                      NewArray(@, "part", call, i,
                          c.parts \o ToolCallParts(message) \o ToolResultParts(message)),
                      call, i, message)],
             call, i, StandardRole(message))

RECURSIVE StandardLoopOnHeap(_, _, _, _)

StandardLoopOnHeap(st, call, i, n) ==
    IF i > n \/ ~st.ok THEN st
    ELSE IF IsSystem(MessageAt(st.heap, i))
    THEN StandardLoopOnHeap(st, call, i + 1, n)
    ELSE StandardLoopOnHeap(
             StandardPassOnHeap(st, call, i, MessageAt(st.heap, i),
                 convertContentToParts(MessageAt(st.heap, i).content)),
             call, i + 1, n)

\* convertMessagesToGooglePayload(messages), the n messages being in h.
StandardOnHeap(h, call, n) ==
    StandardLoopOnHeap(SystemPassOnHeap(EncoderStart(h), call, 1, n), call, 1, n)

\* The payload that st holds, as the heap h has it.
StandardPayloadAt(h, st) ==
    IF ~st.ok
    THEN [ok |-> FALSE, error |-> st.error, contents |-> <<>>,
          systemInstruction |-> None]
    ELSE [ok |-> TRUE, error |-> "",
          contents |-> [k \in 1..Len(st.entries) |->
                           [role |-> st.entries[k].role,
                            parts |-> ElementsAt(h, st.entries[k].parts)]],
          systemInstruction |->
              SystemInstruction([k \in 1..Len(st.system) |-> h[st.system[k]]])]

\* input.push(turn) for the turn t of message i, unless the conversion threw
\* or gave null.
PushTurnOnHeap(st, call, i, t) ==
    IF ~t.ok THEN EncoderThrew(st, t.error)
    ELSE IF IsSome(t.turn)
    THEN [st EXCEPT !.heap = NewArray(@, "item", call, i, Get(t.turn).content),
                    !.entries = Append(@, [role |-> Get(t.turn).role,
                                           parts |-> ArrayOf("item", call, i)])]
    ELSE st

RECURSIVE InteractionLoopOnHeap(_, _, _, _)

InteractionLoopOnHeap(st, call, i, n) ==
    IF i > n \/ ~st.ok THEN st
    ELSE IF IsSystem(MessageAt(st.heap, i))
    THEN InteractionLoopOnHeap(
             [st EXCEPT !.system_instruction =
                  AddSystemText(@, SystemText(MessageAt(st.heap, i)))],
             call, i + 1, n)
    ELSE InteractionLoopOnHeap(
             PushTurnOnHeap(st, call, i,
                 convertMessageToGoogleTurn(MessageAt(st.heap, i))),
             call, i + 1, n)

\* convertMessagesToGoogleInteractionPayload(messages), the n messages being
\* in h.
InteractionsOnHeap(h, call, n) == InteractionLoopOnHeap(EncoderStart(h), call, 1, n)

InteractionPayloadAt(h, st) ==
    IF ~st.ok
    THEN [ok |-> FALSE, error |-> st.error, input |-> <<>>,
          system_instruction |-> None]
    ELSE [ok |-> TRUE, error |-> "",
          input |-> [k \in 1..Len(st.entries) |->
                        [role |-> st.entries[k].role,
                         content |-> ElementsAt(h, st.entries[k].parts)]],
          system_instruction |-> st.system_instruction]

\* What the caller keeps of a call: the encoder, the payload object and the
\* payload as it was returned.
Returned(encoder, st, result) ==
    [encoder |-> encoder, payload |-> [st EXCEPT !.heap = <<>>], result |-> result]

\* The payload of an earlier call, as the heap h has it now.
PayloadAt(h, call) ==
    IF call.encoder = "standard" THEN StandardPayloadAt(h, call.payload)
    ELSE InteractionPayloadAt(h, call.payload)

AliasMessages ==
    { HumanMessage(StringContent("a")),
      HumanMessage(ArrayContent(<<TextBlock("a"), ImageBlock(DataUrl)>>)),
      HumanMessage(ArrayContent(<<OtherBlock("audio")>>)),
      AIMessage(StringContent(""), <<CallF>>,
                [NoMetadata EXCEPT !.thoughtSignature = Some(SigS)]),
      AIMessage(StringContent(""), <<>>,
                [NoMetadata EXCEPT !.thoughtSignature = Some(SigS)]),
      AIMessage(ArrayContent(<<ReasoningBlock("r"), TextBlock("a")>>), <<CallF, CallG>>,
                [thoughtSignature |-> Some(SigS), thought_signature |-> Some(SigT)]),
      AIMessage(ArrayContent(<<TextBlock("b")>>), <<>>, NoMetadata),
      ToolMessage(StringContent("res"), Some("f"), "id1"),
      SystemMessage(ArrayContent(<<TextBlock("s1"), TextBlock("s2")>>)),
      ChatMessage("assistant", StringContent("a")) }

AliasLists == UNION {[1..n -> AliasMessages] : n \in 0..MaxHeld}

InitAlias ==
    /\ pc = "held"
    /\ messages \in AliasLists
    /\ heap = HeapOf(messages)
    /\ payload = None /\ history = <<>>
    /\ response = None /\ pending = <<>> /\ finalChunk = None
    /\ generation = None /\ uuids = 0
    /\ instance = None /\ request = None
    /\ asked = 0 /\ yielded = <<>> /\ callbacks = <<>>
    /\ constructedWith = None /\ calledWith = None

\* The encoder ran to the state st and returned `result`.
Encoded(encoder, st, result) ==
    /\ heap' = st.heap
    /\ payload' = Some(result)
    /\ history' = Append(history, Returned(encoder, st, result))
    /\ UNCHANGED <<pc, messages, response, pending, finalChunk, generation, uuids,
                   instance, request, asked, yielded, callbacks,
                   constructedWith, calledWith>>

\* One more call of convertMessagesToGooglePayload on the list the caller holds.
EncodeStandardOnHeap ==
    /\ pc = "held"
    /\ Len(history) < MaxEncodings
    /\ \E st \in {StandardOnHeap(heap, Len(history) + 1, Len(messages))} :
           Encoded("standard", st, StandardPayloadAt(st.heap, st))

\* One more call of convertMessagesToGoogleInteractionPayload on the same list.
EncodeInteractionsOnHeap ==
    /\ pc = "held"
    /\ Len(history) < MaxEncodings
    /\ \E st \in {InteractionsOnHeap(heap, Len(history) + 1, Len(messages))} :
           Encoded("interactions", st, InteractionPayloadAt(st.heap, st))

NextAlias == EncodeStandardOnHeap \/ EncodeInteractionsOnHeap

SpecAlias == InitAlias /\ [][NextAlias]_vars

-----------------------------------------------------------------------------
(* Properties of the encoders on the heap.                                 *)

\* The caller's objects are the ones the list was made of.
MessagesUntouched ==
    /\ {a \in DOMAIN heap : a[2] = 0} = MessageAddresses(messages)
    /\ \A a \in MessageAddresses(messages) : heap[a] = HeapOf(messages)[a]
    /\ MessagesOf(heap, Len(messages)) = messages

\* What the encoder computes for the list the caller holds.
PayloadOf(encoder, msgs) ==
    IF encoder = "standard" THEN convertMessagesToGooglePayload(msgs)
    ELSE convertMessagesToGoogleInteractionPayload(msgs)

\* C29: the encoders leave the caller's message list and every message in it
\* unchanged (content, tool calls, metadata), also when a message is merged
\* into the last entry and when a signature is written onto the last part;
\* two calls of one encoder on the same list return equal payloads, each the
\* payload of the list, and a later call leaves an earlier payload as it was
\* returned.
C29_EncodingFreeOfAliasing ==
    /\ MessagesUntouched
    /\ \A k \in 1..Len(history) :
           /\ history[k].result = PayloadOf(history[k].encoder, messages)
           /\ PayloadAt(heap, history[k]) = history[k].result
    /\ \A k, l \in 1..Len(history) :
           history[k].encoder = history[l].encoder =>
               history[k].result = history[l].result

\* A signed AI message with an array content was merged into the entry of
\* the AI message before it, twice.
C29_Witness ==
    /\ Len(history) = 2
    /\ history[1].encoder = "standard" /\ history[2].encoder = "standard"
    /\ history[2].result.ok
    /\ Len(messages) = 2
    /\ IsAI(messages[1]) /\ IsAI(messages[2])
    /\ messages[2].content.kind = "array"
    /\ IsSome(messages[2].response_metadata.thoughtSignature)
    /\ Len(history[2].result.contents) = 1
    /\ history[2].result.contents[1].parts[
           Len(history[2].result.contents[1].parts)].thoughtSignature = Some(SigS)

====
